---------------------------- MODULE Spec2Model ----------------------------
(***************************************************************************)
(* Model of the flame graph tools of 01-flame-graph-generator/scripts:     *)
(*   flamegraph.py  folded stacks -> frame tree -> SVG                      *)
(*   flamediff.py   two folded profiles -> merged DiffFrame tree -> SVG     *)
(*                                                                         *)
(* Text is modelled as sequences of one-character strings, so that strip,  *)
(* startswith, rfind, int and split are computed as Python computes them.  *)
(* Python objects (Frame, DiffFrame) live in a heap: a sequence of records *)
(* indexed by allocation order, the root being object 1.                   *)
(* Python floats are modelled as exact rationals [n, d].                   *)
(***************************************************************************)
EXTENDS Integers, Sequences, FiniteSets, TLC

VARIABLES
    pc,          \* position of main(): which statement runs next
    lines,       \* flamegraph.py main: lines read from the input
    idx,         \* parse_folded: index of the line the for loop is at (1-based)
    total,       \* flamegraph.py parse_folded: total
    nodes,       \* heap of Frame objects; nodes[1] is root
    file_a,      \* flamediff.py main: lines of before_file
    file_b,      \* flamediff.py main: lines of after_file
    stacks,      \* flamediff.py parse_folded: the defaultdict being filled
    stacks_a,    \* flamediff.py main: stacks_a
    total_a,     \* flamediff.py main: total_a
    stacks_b,    \* flamediff.py main: stacks_b
    total_b,     \* flamediff.py main: total_b
    all_stacks,  \* build_diff_tree: call paths the for loop has still to visit
    dnodes,      \* heap of DiffFrame objects; dnodes[1] is root
    width,       \* args.width
    todo,        \* pending render_frame / render_diff_frame calls, next call first
    out,         \* frames written to the output stream, in order
    exit_code,   \* process exit status, -1 while running
    run,         \* number of the current execution (1 or 2)
    prev,        \* result of the previous execution, <<>> in the first
    cargs,       \* delta_color: the arguments of the call
    cret,        \* delta_color: the returned triple, <<>> before the call
    args,        \* main: the parsed command line, except args.width
    before_file, \* flamediff.py main: before_file
    after_file,  \* flamediff.py main: after_file
    opened,      \* the open() calls made so far, in order: [name, mode]
    stderr,      \* the messages printed to sys.stderr, in order
    written,     \* number of write() calls made on the output stream
    md5,         \* hashlib.md5 as far as it has been called: name -> 32-bit prefix
    hashes       \* the prefixes hashlib.md5 may give in this execution

vars == <<pc, lines, idx, total, nodes, file_a, file_b, stacks, stacks_a, total_a,
          stacks_b, total_b, all_stacks, dnodes, width, todo, out, exit_code,
          run, prev, cargs, cret, args, before_file, after_file, opened, stderr,
          written, md5, hashes>>

-----------------------------------------------------------------------------
(* Bounds of the model *)

\* longest input of the single-profile tool, in lines
MaxLines == 3

-----------------------------------------------------------------------------
(* Characters and Python's str operations *)

\* the characters of the model's inputs, in code point order
CharTable == <<"\t", "\n", " ", "#", "&", "+", "-", "0", "1", "2", "3", "5", "9",
               ";", "<", "a", "b", "c", "g", "l", "m", "o", "p", "r", "t", "x", "y">>

\* ord(c), up to an order-preserving renumbering
Ord(c) == CHOOSE k \in 1..Len(CharTable) : CharTable[k] = c

\* str.isspace for one character
IsSpace(c) == c \in {" ", "\t", "\n"}

IsDigit(c) == c \in {"0", "1", "2", "3", "5", "9"}

DigitVal(c) ==
    CASE c = "0" -> 0 [] c = "1" -> 1 [] c = "2" -> 2 [] c = "3" -> 3
      [] c = "5" -> 5 [] c = "9" -> 9

RECURSIVE lstrip(_)
lstrip(s) == IF s # <<>> /\ IsSpace(Head(s)) THEN lstrip(Tail(s)) ELSE s

RECURSIVE rstrip(_)
rstrip(s) ==
    IF s # <<>> /\ IsSpace(s[Len(s)]) THEN rstrip(SubSeq(s, 1, Len(s) - 1)) ELSE s

\* str.strip()
strip(s) == rstrip(lstrip(s))

\* str.startswith(c) for a one-character prefix
startswith(s, c) == s # <<>> /\ Head(s) = c

\* str.rfind(c): the highest 0-based index of c in s, -1 when absent
rfind(s, c) ==
    LET hits == {k \in 1..Len(s) : s[k] = c}
    IN  IF hits = {} THEN -1
        ELSE (CHOOSE k \in hits : \A j \in hits : j <= k) - 1

\* s[:i] for -len(s) <= i <= len(s), and s[i:] for 0 <= i <= len(s)
SliceTo(s, i) ==
    IF i < 0 THEN SubSeq(s, 1, Len(s) + i)
    ELSE SubSeq(s, 1, IF i <= Len(s) THEN i ELSE Len(s))
SliceFrom(s, i) == SubSeq(s, i + 1, Len(s))

RECURSIVE DigitsVal(_, _)
DigitsVal(s, acc) ==
    IF s = <<>> THEN acc ELSE DigitsVal(Tail(s), 10 * acc + DigitVal(Head(s)))

\* int(s): [ok |-> FALSE] stands for ValueError
int(s) ==
    LET t    == strip(s)
        sgn  == t # <<>> /\ Head(t) \in {"+", "-"}
        digs == IF sgn THEN Tail(t) ELSE t
    IN  IF digs # <<>> /\ \A k \in 1..Len(digs) : IsDigit(digs[k])
        THEN [ok |-> TRUE,
              val |-> IF sgn /\ Head(t) = "-" THEN 0 - DigitsVal(digs, 0)
                      ELSE DigitsVal(digs, 0)]
        ELSE [ok |-> FALSE, val |-> 0]

\* str.split(sep) for a one-character separator: always at least one field
RECURSIVE split(_, _)
split(s, sep) ==
    LET hits == {k \in 1..Len(s) : s[k] = sep}
    IN  IF hits = {} THEN <<s>>
        ELSE LET k == CHOOSE h \in hits : \A j \in hits : h <= j
             IN  <<SubSeq(s, 1, k - 1)>> \o split(SubSeq(s, k + 1, Len(s)), sep)

\* s < t for Python strings: lexicographic by code point
RECURSIVE StrLess(_, _)
StrLess(s, t) ==
    IF t = <<>> THEN FALSE
    ELSE IF s = <<>> THEN TRUE
    ELSE IF Head(s) # Head(t) THEN Ord(Head(s)) < Ord(Head(t))
    ELSE StrLess(Tail(s), Tail(t))

-----------------------------------------------------------------------------
(* Floats as exact rationals [n |-> numerator, d |-> denominator > 0] *)

RECURSIVE GCD(_, _)
GCD(a, b) == IF b = 0 THEN a ELSE GCD(b, a % b)

Abs(x) == IF x < 0 THEN 0 - x ELSE x

Rat(n, d) ==
    LET g == GCD(Abs(n), d)
    IN  IF n = 0 THEN [n |-> 0, d |-> 1] ELSE [n |-> n \div g, d |-> d \div g]

RInt(k) == [n |-> k, d |-> 1]
\* a * b, a + b, a - b; common factors are removed before the products are formed
RMul(a, b) ==
    LET g1 == IF a.n = 0 THEN 1 ELSE GCD(Abs(a.n), b.d)
        g2 == IF b.n = 0 THEN 1 ELSE GCD(Abs(b.n), a.d)
    IN  Rat((a.n \div g1) * (b.n \div g2), (a.d \div g2) * (b.d \div g1))
RAdd(a, b) ==
    LET g == GCD(a.d, b.d)
    IN  Rat(a.n * (b.d \div g) + b.n * (a.d \div g), (a.d \div g) * b.d)
RSub(a, b) ==
    LET g == GCD(a.d, b.d)
    IN  Rat(a.n * (b.d \div g) - b.n * (a.d \div g), (a.d \div g) * b.d)
RLess(a, b) == a.n * b.d < b.n * a.d

\* a / b for b > 0
RDiv(a, b) == Rat(a.n * b.d, a.d * b.n)

Max(a, b) == IF a >= b THEN a ELSE b

RAbs(a) == [n |-> Abs(a.n), d |-> a.d]
RMin(a, b) == IF RLess(b, a) THEN b ELSE a

\* int(x) for a float x > 0 whose exact value is a: a float product that is
\* exactly an integer k may have been rounded below k, so int() gives k or k - 1
RTrunc(a) == IF a.d = 1 /\ a.n > 0 THEN {a.n, a.n - 1} ELSE {a.n \div a.d}

\* x < y for floats whose exact values are a and b: decided by the exact values
\* unless they are equal, when rounding decides
RBelow(a, b) == IF a = b THEN {TRUE, FALSE} ELSE {RLess(a, b)}

RECURSIVE RSum(_)
RSum(s) == IF s = <<>> THEN RInt(0) ELSE RAdd(Head(s), RSum(Tail(s)))

-----------------------------------------------------------------------------
(* flamegraph.py: class Frame *)

\* Frame.__init__
Frame(name) ==
    [name |-> name, count |-> 0, self_count |-> 0,
     children |-> <<>>, child_map |-> <<>>]

\* add_child without the child_map lookup: a child is created on every call
add_child_no_lookup(h, p, name) ==
    LET id == Len(h) + 1
    IN  [heap  |-> Append([h EXCEPT ![p].children = Append(@, id),
                                    ![p].child_map = (name :> id) @@ @],
                          Frame(name)),
         child |-> id]

\* Frame.add_child on object p of heap h: the heap afterwards and the child
add_child(h, p, name) ==
    IF name \in DOMAIN h[p].child_map
    THEN [heap |-> h, child |-> h[p].child_map[name]]
    ELSE LET id == Len(h) + 1
         IN  [heap  |-> Append([h EXCEPT ![p].children = Append(@, id),
                                         ![p].child_map = @ @@ (name :> id)],
                               Frame(name)),
              child |-> id]

\* list.sort(key=lambda f: f.name) on a list of object ids: stable insertion
RECURSIVE InsertByName(_, _, _)
InsertByName(h, sorted, id) ==
    IF sorted = <<>> THEN <<id>>
    ELSE IF StrLess(h[id].name, h[Head(sorted)].name)
         THEN <<id>> \o sorted
         ELSE <<Head(sorted)>> \o InsertByName(h, Tail(sorted), id)

RECURSIVE SortByName(_, _)
SortByName(h, ids) ==
    IF ids = <<>> THEN <<>>
    ELSE InsertByName(h, SortByName(h, SubSeq(ids, 1, Len(ids) - 1)), ids[Len(ids)])

\* sort_children that leaves every children list as it is
no_sort_children(h) == h

\* Frame.sort_children from the root: every object is reached from the root,
\* so every object's children list is sorted
sort_children(h) ==
    [k \in 1..Len(h) |-> [h[k] EXCEPT !.children = SortByName(h, @)]]

\* Frame.max_depth
RECURSIVE max_depth(_, _, _)
max_depth(h, p, depth) ==
    LET RECURSIVE over(_, _)
        over(cs, m) ==
            IF cs = <<>> THEN m
            ELSE LET d == max_depth(h, Head(cs), depth + 1)
                 IN  over(Tail(cs), IF d > m THEN d ELSE m)
    IN  over(h[p].children, depth)

-----------------------------------------------------------------------------
(* flamegraph.py: parse_folded *)

\* the tests without lines 67-68: a line without a space is not skipped
fg_accepted_without_space(line) ==
    LET l == strip(line)
    IN  ~(l = <<>> \/ startswith(l, "#"))

\* lines 61-68: the line survives the three `continue` tests
fg_accepted(line) ==
    LET l == strip(line)
    IN  /\ ~(l = <<>> \/ startswith(l, "#"))
        /\ ~(rfind(l, " ") < 0)

\* line 70: stack_str = line[:idx]
fg_stack_str(line) ==
    LET l == strip(line) IN SliceTo(l, rfind(l, " "))

\* the count without lines 75-76: a parsed count <= 0 is kept as it is
fg_count_not_coerced(line) ==
    LET l == strip(line)
        r == int(SliceFrom(l, rfind(l, " ") + 1))
    IN  IF r.ok THEN r.val ELSE 1

\* lines 71-76: the count of an accepted line
fg_count(line) ==
    LET l == strip(line)
        r == int(SliceFrom(l, rfind(l, " ") + 1))
        c == IF r.ok THEN r.val ELSE 1
    IN  IF c <= 0 THEN 1 ELSE c

\* the walk with `node.self_count += count` inside the for loop
RECURSIVE fg_walk_self_in_loop(_, _, _, _)
fg_walk_self_in_loop(h, node, funcs, count) ==
    IF funcs = <<>> THEN h
    ELSE LET r == add_child(h, node, Head(funcs))
         IN  fg_walk_self_in_loop([r.heap EXCEPT ![r.child].count = @ + count,
                                                 ![r.child].self_count = @ + count],
                                  r.child, Tail(funcs), count)

\* lines 83-86: the walk down from `node`, then the self count
RECURSIVE fg_walk(_, _, _, _)
fg_walk(h, node, funcs, count) ==
    IF funcs = <<>>
    THEN [h EXCEPT ![node].self_count = @ + count]
    ELSE LET r == add_child(h, node, Head(funcs))
         IN  fg_walk([r.heap EXCEPT ![r.child].count = @ + count],
                     r.child, Tail(funcs), count)

\* lines 79-86: one accepted path added to the tree
fg_add_path(h, stack_str, count) ==
    fg_walk([h EXCEPT ![1].count = @ + count], 1, split(stack_str, ";"), count)

-----------------------------------------------------------------------------
(* flamegraph.py: rendering constants and render_frame *)

FRAME_HEIGHT == 16
MARGIN == 10
DefaultWidth == 1200

\* MIN_WIDTH_PX = 0.1
MIN_WIDTH_PX == [n |-> 1, d |-> 10]

\* the MD5 prefix of a name is [hi, lo, low]: h = hi * 2^16 + lo, both halves in
\* 0..2^16 - 1; low[k] says that on this input the float product of channel k,
\* when it is exactly an integer, is rounded below it, so that int() gives one less

\* line 96: hue = h % 60, where 2^16 % 60 = 16
hue_of(h) == ((h.hi % 60) * 16 + h.lo) % 60

\* line 97: sat = 160 + (h >> 8) % 55
sat_of(h) == 160 + ((h.hi * 256 + (h.lo \div 256)) % 55)

\* line 98: val = 200 + (h >> 16) % 56
val_of(h) == 200 + (h.hi % 56)

\* lines 101-115: the three products int() is applied to
channel_products(h) ==
    LET hf == Rat(hue_of(h), 60)
        s  == Rat(sat_of(h), 255)
        v  == Rat(val_of(h), 255)
        c  == RMul(v, s)
        x  == RMul(c, RSub(RInt(1), RAbs(IF ~RLess(RInt(1), hf) THEN hf
                                         ELSE RSub(hf, RInt(1)))))
        m  == RSub(v, c)
        rf == IF RLess(hf, RInt(1)) THEN c ELSE x
        gf == IF RLess(hf, RInt(1)) THEN x ELSE c
        bf == RInt(0)
    IN  <<RMul(RAdd(rf, m), RInt(255)),
          RMul(RAdd(gf, m), RInt(255)),
          RAdd(RMul(RAdd(bf, m), RInt(55)), RInt(30))>>

\* int(x) for a float x > 0 of exact value a
FloatInt(a, low) == IF low /\ a.d = 1 /\ a.n > 0 THEN a.n - 1 ELSE a.n \div a.d

\* lines 96-116: name_to_color after line 95
name_to_color(h) ==
    LET p == channel_products(h)
    IN  <<FloatInt(p[1], h.low[1]), FloatInt(p[2], h.low[2]), FloatInt(p[3], h.low[3])>>

\* a hash that does not depend on the name alone: every call may give any prefix
md5_prefix_unstable(name, depth) == hashes

\* line 95: the prefix hashlib.md5 gives for the name; the root (depth 0) is not
\* hashed (lines 144-147)
md5_prefix(name, depth) ==
    IF depth = 0 THEN {<<>>}
    ELSE IF name \in DOMAIN md5 THEN {md5[name]}
    ELSE hashes

\* the table of the prefixes seen so far, after a call on name that gave h
md5_called(name, h) ==
    [n \in DOMAIN md5 \cup {name} |-> IF n = name THEN h ELSE md5[n]]

\* lines 144-147: the fill of a frame
fg_fill(h, depth) == IF depth = 0 THEN <<200, 200, 200>> ELSE name_to_color(h)

\* the prefix of md5("a"), 0x0cc175b9, on which no product is an integer but the
\* first, which floats compute exactly
DefaultHashes == {[hi |-> 3265, lo |-> 30137, low |-> <<FALSE, FALSE, FALSE>>]}

\* CHAR_WIDTH = 6.5
CHAR_WIDTH == [n |-> 13, d |-> 2]

RootName == <<"r", "o", "o", "t">>

\* xml_escape for one character, '>' and '"' not being among the model's characters
EscapeChar(c) ==
    CASE c = "&" -> <<"&", "a", "m", "p", ";">>
      [] c = "<" -> <<"&", "l", "t", ";">>
      [] OTHER   -> <<c>>

\* lines 121-125: xml_escape
RECURSIVE xml_escape(_)
xml_escape(s) == IF s = <<>> THEN <<>> ELSE EscapeChar(Head(s)) \o xml_escape(Tail(s))

NoLabel == [kind |-> "none", max_chars |-> 0, text |-> <<>>]

\* lines 173-177: the truncated label for a given max_chars
fg_trunc(name, max_chars) ==
    IF max_chars > 0
    THEN [kind |-> "trunc", max_chars |-> max_chars,
          text |-> xml_escape(SliceTo(name, max_chars)) \o <<".", ".">>]
    ELSE NoLabel

\* lines 165-177: the <text> element render_frame writes for a frame, if any; a
\* set, one label except where float rounding decides a comparison or int()
fg_label(name, x_width) ==
    LET text_width == RMul(RInt(Len(name)), CHAR_WIDTH)
    IN  UNION {
          IF fits
          THEN {[kind |-> "full", max_chars |-> Len(name), text |-> xml_escape(name)]}
          ELSE UNION {
                 IF wide
                 THEN {fg_trunc(name, mc) :
                          mc \in RTrunc(RDiv(RSub(x_width, RInt(6)), CHAR_WIDTH))}
                 ELSE {NoLabel} :
                 wide \in RBelow(RInt(20), x_width)} :
          fits \in RBelow(RAdd(text_width, RInt(6)), x_width)}

\* lines 157-179: the write() calls of one drawn frame
fg_frame_writes(label) == IF label.kind = "none" THEN 4 ELSE 5

\* child_w as a share of the root's count instead of the parent's
fg_child_w_of_root(h, frame, child, x_width) ==
    IF h[1].count > 0
    THEN RMul(x_width, Rat(h[child].count, h[1].count))
    ELSE RInt(0)

\* line 184: child_w
fg_child_w(h, frame, child, x_width) ==
    IF h[frame].count > 0
    THEN RMul(x_width, Rat(h[child].count, h[frame].count))
    ELSE RInt(0)

\* child_x advanced only past the children wide enough to be drawn
RECURSIVE fg_child_calls_skip_narrow(_, _, _, _, _, _)
fg_child_calls_skip_narrow(h, frame, cs, depth, child_x, x_width) ==
    IF cs = <<>> THEN <<>>
    ELSE LET child_w == fg_child_w(h, frame, Head(cs), x_width)
         IN  <<[frame |-> Head(cs), depth |-> depth + 1,
                x_left |-> child_x, x_width |-> child_w]>>
             \o fg_child_calls_skip_narrow(h, frame, Tail(cs), depth,
                                           IF RLess(child_w, MIN_WIDTH_PX) THEN child_x
                                           ELSE RAdd(child_x, child_w),
                                           x_width)

\* lines 182-187: the recursive calls made for the children `cs` of `frame`,
\* in call order, child_x advancing by child_w after each
RECURSIVE fg_child_calls(_, _, _, _, _, _)
fg_child_calls(h, frame, cs, depth, child_x, x_width) ==
    IF cs = <<>> THEN <<>>
    ELSE LET child_w == fg_child_w(h, frame, Head(cs), x_width)
         IN  <<[frame |-> Head(cs), depth |-> depth + 1,
                x_left |-> child_x, x_width |-> child_w]>>
             \o fg_child_calls(h, frame, Tail(cs), depth, RAdd(child_x, child_w), x_width)

-----------------------------------------------------------------------------
(* Initial values of the variables a tool does not use *)

IdleFG == lines = <<>> /\ nodes = <<>>

IdleFD ==
    /\ file_a = <<>> /\ file_b = <<>> /\ stacks = <<>>
    /\ stacks_a = <<>> /\ total_a = 0 /\ stacks_b = <<>> /\ total_b = 0
    /\ all_stacks = {} /\ dnodes = <<>>

IdleRender == todo = <<>> /\ out = <<>>

IdleColor == cargs = <<>> /\ cret = <<>>

fdVars == <<file_a, file_b, stacks, stacks_a, total_a, stacks_b, total_b,
            all_stacks, dnodes>>
fgOnly == <<lines, nodes>>
colorVars == <<cargs, cret>>

argVars == <<args, before_file, after_file>>
md5Vars == <<md5, hashes>>
ioVars == <<opened, stderr, written>>

\* all sequences over S of length at most n
SeqsUpTo(S, n) == UNION {[1..k -> S] : k \in 0..n}

-----------------------------------------------------------------------------
(* Command line values: an option is <<>> when absent (None), <<s>> when given *)

None == <<>>
Some(s) == <<s>>

\* bool(v) for v a str or None
Truthy(v) == v # None /\ v[1] # ""

\* a or b
Or(a, b) == IF Truthy(a) THEN a ELSE b

\* open(name, mode) recorded
Open(name, mode) == Append(opened, [name |-> name[1], mode |-> mode])

\* nothing opened, printed or written yet
IdleIO == opened = <<>> /\ stderr = <<>> /\ written = 0

-----------------------------------------------------------------------------
(* flamegraph.py: main, one action per step *)

\* lines 348-356: the input is read, from args.input when given; an empty
\* input ends the run with status 1.
\* line 358 enters parse_folded: root = Frame("root"), total = 0
fg_Read ==
    /\ pc = "fg_read"
    /\ opened' = IF Truthy(args.input) THEN Open(args.input, "r") ELSE opened
    /\ IF lines = <<>>
       THEN /\ stderr' = Append(stderr, "flamegraph.py: no input")
            /\ pc' = "exit" /\ exit_code' = 1
            /\ UNCHANGED <<idx, total, nodes>>
       ELSE /\ pc' = "fg_parse" /\ idx' = 1 /\ total' = 0
            /\ nodes' = <<Frame(RootName)>>
            /\ UNCHANGED <<exit_code, stderr>>
    /\ UNCHANGED <<lines, width, todo, out, run, prev, written>>
    /\ UNCHANGED fdVars /\ UNCHANGED colorVars /\ UNCHANGED md5Vars /\ UNCHANGED argVars

\* lines 60-86: one iteration of the for loop of parse_folded
fg_ParseLine ==
    /\ pc = "fg_parse" /\ idx <= Len(lines)
    /\ IF fg_accepted(lines[idx])
       THEN /\ total' = total + fg_count(lines[idx])
            /\ nodes' = fg_add_path(nodes, fg_stack_str(lines[idx]), fg_count(lines[idx]))
       ELSE UNCHANGED <<total, nodes>>
    /\ idx' = idx + 1
    /\ UNCHANGED <<pc, lines, width, todo, out, exit_code, run, prev>>
    /\ UNCHANGED fdVars /\ UNCHANGED colorVars /\ UNCHANGED md5Vars /\ UNCHANGED argVars /\ UNCHANGED ioVars

\* the output opened before the total is looked at
fg_ParseReturn_opens_first ==
    /\ pc = "fg_parse" /\ idx > Len(lines)
    /\ opened' = IF Truthy(args.output) THEN Open(args.output, "w") ELSE opened
    /\ IF total = 0
       THEN /\ stderr' = Append(stderr, "flamegraph.py: no samples found in input")
            /\ pc' = "exit" /\ exit_code' = 1
       ELSE /\ stderr' = Append(stderr, "flamegraph.py: samples, generating SVG...")
            /\ pc' = "fg_render_svg" /\ UNCHANGED exit_code
    /\ UNCHANGED <<lines, idx, total, nodes, width, todo, out, run, prev, written>>
    /\ UNCHANGED fdVars /\ UNCHANGED colorVars /\ UNCHANGED md5Vars /\ UNCHANGED argVars

\* line 88 and lines 360-364: parse_folded returns; no samples ends the run
fg_ParseReturn ==
    /\ pc = "fg_parse" /\ idx > Len(lines)
    /\ IF total = 0
       THEN /\ stderr' = Append(stderr, "flamegraph.py: no samples found in input")
            /\ pc' = "exit" /\ exit_code' = 1
       ELSE /\ stderr' = Append(stderr, "flamegraph.py: samples, generating SVG...")
            /\ pc' = "fg_render_svg" /\ UNCHANGED exit_code
    /\ UNCHANGED <<lines, idx, total, nodes, width, todo, out, run, prev, opened, written>>
    /\ UNCHANGED fdVars /\ UNCHANGED colorVars /\ UNCHANGED md5Vars /\ UNCHANGED argVars

\* lines 367-371: the output is opened when args.output is given;
\* lines 290-326: render_svg up to the call of render_frame on the root
fg_RenderSvg ==
    /\ pc = "fg_render_svg"
    /\ opened' = IF Truthy(args.output) THEN Open(args.output, "w") ELSE opened
    /\ nodes' = sort_children(nodes)
    /\ out' = <<>>
    /\ written' = 8
    /\ todo' = <<[frame |-> 1, depth |-> 0, x_left |-> RInt(MARGIN),
                  x_width |-> RInt(width - 2 * MARGIN)]>>
    /\ pc' = "fg_render_frame"
    /\ UNCHANGED <<lines, idx, total, width, exit_code, run, prev, stderr>>
    /\ UNCHANGED fdVars /\ UNCHANGED colorVars /\ UNCHANGED md5Vars /\ UNCHANGED argVars

\* lines 137-189: one call of render_frame, its recursive calls left pending
fg_RenderFrame ==
    /\ pc = "fg_render_frame" /\ todo # <<>>
    /\ LET call == Head(todo)
       IN  \E below \in RBelow(call.x_width, MIN_WIDTH_PX) :
           IF below
           THEN todo' = Tail(todo) /\ UNCHANGED <<out, written, md5>>
           ELSE /\ \E label \in fg_label(nodes[call.frame].name, call.x_width),
                      h \in md5_prefix(nodes[call.frame].name, call.depth) :
                      /\ out' = Append(out, [id |-> Len(out), frame |-> call.frame,
                                             depth |-> call.depth, x_left |-> call.x_left,
                                             x_width |-> call.x_width, label |-> label,
                                             fill |-> fg_fill(h, call.depth)])
                      /\ written' = written + fg_frame_writes(label)
                      /\ md5' = IF call.depth = 0 THEN md5
                                ELSE md5_called(nodes[call.frame].name, h)
                /\ todo' = fg_child_calls(nodes, call.frame, nodes[call.frame].children,
                                          call.depth, call.x_left, call.x_width)
                           \o Tail(todo)
    /\ UNCHANGED <<pc, lines, idx, total, nodes, width, exit_code, run, prev>>
    /\ UNCHANGED <<opened, stderr, hashes>>
    /\ UNCHANGED fdVars /\ UNCHANGED colorVars /\ UNCHANGED argVars

\* lines 329-331 and 373: the document is closed and main returns
fg_Done ==
    /\ pc = "fg_render_frame" /\ todo = <<>>
    /\ written' = written + 2
    /\ stderr' = Append(stderr, "flamegraph.py: done")
    /\ pc' = "done" /\ exit_code' = 0
    /\ UNCHANGED <<lines, idx, total, nodes, width, todo, out, run, prev, opened>>
    /\ UNCHANGED fdVars /\ UNCHANGED colorVars /\ UNCHANGED md5Vars /\ UNCHANGED argVars

fg_Next ==
    \/ fg_Read \/ fg_ParseLine \/ fg_ParseReturn
    \/ fg_RenderSvg \/ fg_RenderFrame \/ fg_Done

\* the inputs of the single-profile tool
LinePool ==
    { <<"a", ";", "b", " ", "5", "\n">>,
      <<"a", ";", "c", " ", "5", "\n">>,
      <<"a", " ", "2", "\n">>,
      <<"#", " ", "c", "\n">>,
      <<"\n">>,
      <<"b", "a", "b">>,
      <<"x", ";", "y", " ", "3">>,
      <<" ", "a", ";", "b", " ", "x", "\n">>,
      <<"b", " ", "-", "2", "\n">> }

\* the command line `-i p`: input from file p, output to sys.stdout
fg_DefaultArgs == [input |-> Some("p"), output |-> None]

fg_InitHashes(pool, n, widths, argset, hashset) ==
    /\ pc = "fg_read"
    /\ lines \in SeqsUpTo(pool, n)
    /\ idx = 0 /\ total = 0 /\ nodes = <<>>
    /\ width \in widths
    /\ exit_code = -1 /\ run = 1 /\ prev = <<>>
    /\ args \in argset /\ before_file = None /\ after_file = None
    /\ md5 = <<>> /\ hashes = hashset
    /\ IdleFD /\ IdleRender /\ IdleColor /\ IdleIO

fg_InitArgs(pool, n, widths, argset) ==
    fg_InitHashes(pool, n, widths, argset, DefaultHashes)

fg_Init(pool, n, widths) == fg_InitArgs(pool, n, widths, {fg_DefaultArgs})

-----------------------------------------------------------------------------
(* flamediff.py: class DiffFrame *)

\* DiffFrame.__init__
DiffFrame(name) ==
    [name |-> name, count_a |-> 0, count_b |-> 0, self_a |-> 0, self_b |-> 0,
     children |-> <<>>, child_map |-> <<>>]

\* DiffFrame.count
d_count(f) == Max(f.count_a, f.count_b)

\* add_child without line 46: the new child is not entered in child_map
d_add_child_map_unset(h, p, name) ==
    IF name \in DOMAIN h[p].child_map
    THEN [heap |-> h, child |-> h[p].child_map[name]]
    ELSE LET id == Len(h) + 1
         IN  [heap  |-> Append([h EXCEPT ![p].children = Append(@, id)],
                               DiffFrame(name)),
              child |-> id]

\* DiffFrame.add_child on object p of heap h: the heap afterwards and the child
d_add_child(h, p, name) ==
    IF name \in DOMAIN h[p].child_map
    THEN [heap |-> h, child |-> h[p].child_map[name]]
    ELSE LET id == Len(h) + 1
         IN  [heap  |-> Append([h EXCEPT ![p].children = Append(@, id),
                                         ![p].child_map = @ @@ (name :> id)],
                               DiffFrame(name)),
              child |-> id]

\* DiffFrame.sort_children from the root
d_sort_children(h) ==
    [k \in 1..Len(h) |-> [h[k] EXCEPT !.children = SortByName(h, @)]]

-----------------------------------------------------------------------------
(* flamediff.py: parse_folded and build_diff_tree *)

\* lines 70-75: the line survives the three `continue` tests
fd_accepted(line) ==
    LET l == strip(line)
    IN  /\ ~(l = <<>> \/ startswith(l, "#"))
        /\ ~(rfind(l, " ") < 0)

\* line 76: stack_str = line[:idx]
fd_stack_str(line) ==
    LET l == strip(line) IN SliceTo(l, rfind(l, " "))

\* the count without lines 81-82: a parsed count <= 0 is kept as it is
fd_count_not_coerced(line) ==
    LET l == strip(line)
        r == int(SliceFrom(l, rfind(l, " ") + 1))
    IN  IF r.ok THEN r.val ELSE 1

\* lines 77-82: the count of an accepted line
fd_count(line) ==
    LET l == strip(line)
        r == int(SliceFrom(l, rfind(l, " ") + 1))
        c == IF r.ok THEN r.val ELSE 1
    IN  IF c <= 0 THEN 1 ELSE c

\* line 83 as `stacks[stack_str] = count`: the entry is overwritten
fd_stacks_overwrite(st, stack_str, count) ==
    (stack_str :> count) @@ st

\* line 83: stacks[stack_str] += count on a defaultdict(int)
fd_stacks_add(st, stack_str, count) ==
    IF stack_str \in DOMAIN st
    THEN [st EXCEPT ![stack_str] = @ + count]
    ELSE st @@ (stack_str :> count)

\* dict.get(key, 1): an absent call path counted as one sample
get_default_one(st, key) == IF key \in DOMAIN st THEN st[key] ELSE 1

\* dict.get(key, 0)
get0(st, key) == IF key \in DOMAIN st THEN st[key] ELSE 0

\* lines 106-112: the walk down from `node`, then the self counts
\* the walk with the self counts of the two sides exchanged at the leaf
RECURSIVE fd_walk_self_exchanged(_, _, _, _, _)
fd_walk_self_exchanged(h, node, funcs, count_a, count_b) ==
    IF funcs = <<>>
    THEN [h EXCEPT ![node].self_a = @ + count_b, ![node].self_b = @ + count_a]
    ELSE LET r == d_add_child(h, node, Head(funcs))
         IN  fd_walk_self_exchanged([r.heap EXCEPT ![r.child].count_a = @ + count_a,
                                                   ![r.child].count_b = @ + count_b],
                                    r.child, Tail(funcs), count_a, count_b)

RECURSIVE fd_walk(_, _, _, _, _)
fd_walk(h, node, funcs, count_a, count_b) ==
    IF funcs = <<>>
    THEN [h EXCEPT ![node].self_a = @ + count_a, ![node].self_b = @ + count_b]
    ELSE LET r == d_add_child(h, node, Head(funcs))
         IN  fd_walk([r.heap EXCEPT ![r.child].count_a = @ + count_a,
                                    ![r.child].count_b = @ + count_b],
                     r.child, Tail(funcs), count_a, count_b)

\* the loop body without lines 103-104: the root's counts are not updated
fd_add_path_no_root(h, sa, sb, stack_str) ==
    fd_walk(h, 1, split(stack_str, ";"), get0(sa, stack_str), get0(sb, stack_str))

\* lines 98-112: the body of the for loop of build_diff_tree for one call path
fd_add_path(h, sa, sb, stack_str) ==
    LET count_a == get0(sa, stack_str)
        count_b == get0(sb, stack_str)
    IN  fd_walk([h EXCEPT ![1].count_a = @ + count_a, ![1].count_b = @ + count_b],
                1, split(stack_str, ";"), count_a, count_b)

-----------------------------------------------------------------------------
(* flamediff.py: delta_color *)

Clamp(x) == Max(0, IF x <= 255 THEN x ELSE 255)

Gray == <<200, 200, 200>>

\* the difference of the raw counts, the rates never formed
rate_diff_raw(count_a, count_b, tot_a, tot_b) == RInt(count_b - count_a)

\* lines 130-133: diff = rate_b - rate_a
rate_diff(count_a, count_b, tot_a, tot_b) ==
    LET rate_a == IF tot_a > 0 THEN Rat(count_a, tot_a) ELSE RInt(0)
        rate_b == IF tot_b > 0 THEN Rat(count_b, tot_b) ELSE RInt(0)
    IN  RSub(rate_b, rate_a)

\* line 141: intensity = min(abs(diff) / 0.3, 1.0)
intensity_of(diff) == RMin(RMul(RAbs(diff), Rat(10, 3)), RInt(1))

\* int(k * intensity): where abs(diff) / 0.3 exceeds 1 the float intensity is
\* exactly 1.0 and the product exactly k
scaled(k, diff) ==
    IF RLess(RInt(1), RMul(RAbs(diff), Rat(10, 3))) THEN {k}
    ELSE RTrunc(RMul(RInt(k), intensity_of(diff)))

\* the blend with the two branches exchanged: blue for diff > 0
blend_swapped(diff) ==
    IF diff.n > 0
    THEN {<<Clamp(200 - t[2]), Clamp(200 - t[3]), Clamp(200 + t[1])>> :
             t \in scaled(55, diff) \X scaled(140, diff) \X scaled(80, diff)}
    ELSE {<<Clamp(200 + t[1]), Clamp(200 - t[2]), Clamp(200 - t[2])>> :
             t \in scaled(55, diff) \X scaled(140, diff)}

\* lines 143-154: the colours the blend can give for a difference that is not
\* below the threshold
blend(diff) ==
    IF diff.n > 0
    THEN {<<Clamp(200 + t[1]), Clamp(200 - t[2]), Clamp(200 - t[2])>> :
             t \in scaled(55, diff) \X scaled(140, diff)}
    ELSE {<<Clamp(200 - t[2]), Clamp(200 - t[3]), Clamp(200 + t[1])>> :
             t \in scaled(55, diff) \X scaled(140, diff) \X scaled(80, diff)}

\* lines 119-154: the set of triples the call can return (one, except where
\* float rounding decides)
delta_color(count_a, count_b, tot_a, tot_b) ==
    IF tot_a = 0 /\ tot_b = 0 THEN {Gray}
    ELSE LET diff == rate_diff(count_a, count_b, tot_a, tot_b)
         IN  UNION {IF below THEN {Gray} ELSE blend(diff) :
                       below \in RBelow(RAbs(diff), Rat(1, 1000))}

-----------------------------------------------------------------------------
(* flamediff.py: render_diff_frame *)

\* lines 226-228: child_w
fd_child_w(h, frame, child, x_width) ==
    LET parent_count == IF d_count(h[frame]) > 0 THEN d_count(h[frame]) ELSE 1
    IN  RMul(x_width, Rat(d_count(h[child]), parent_count))

\* lines 225-231: the recursive calls made for the children `cs` of `frame`
RECURSIVE fd_child_calls(_, _, _, _, _, _)
fd_child_calls(h, frame, cs, depth, child_x, x_width) ==
    IF cs = <<>> THEN <<>>
    ELSE LET child_w == fd_child_w(h, frame, Head(cs), x_width)
         IN  <<[frame |-> Head(cs), depth |-> depth + 1,
                x_left |-> child_x, x_width |-> child_w]>>
             \o fd_child_calls(h, frame, Tail(cs), depth, RAdd(child_x, child_w), x_width)

\* lines 216-220: the truncated label for a given max_chars
fd_trunc(name, max_chars) ==
    IF max_chars > 0
    THEN [kind |-> "trunc", max_chars |-> max_chars,
          text |-> xml_escape(SliceTo(name, max_chars)) \o <<".", ".">>]
    ELSE NoLabel

\* lines 208-220: the <text> element render_diff_frame writes for a frame, if any
fd_label(name, x_width) ==
    LET text_width == RMul(RInt(Len(name)), CHAR_WIDTH)
    IN  UNION {
          IF fits
          THEN {[kind |-> "full", max_chars |-> Len(name), text |-> xml_escape(name)]}
          ELSE UNION {
                 IF wide
                 THEN {fd_trunc(name, mc) :
                          mc \in RTrunc(RDiv(RSub(x_width, RInt(6)), CHAR_WIDTH))}
                 ELSE {NoLabel} :
                 wide \in RBelow(RInt(20), x_width)} :
          fits \in RBelow(RAdd(text_width, RInt(6)), x_width)}

\* lines 199-222: the write() calls of one drawn frame
fd_frame_writes(label) == IF label.kind = "none" THEN 4 ELSE 5

\* the fill with the two totals passed to delta_color in the wrong order
fd_fill_totals_swapped(h, frame, depth, tot_a, tot_b) ==
    IF depth = 0 THEN {Gray}
    ELSE delta_color(h[frame].count_a, h[frame].count_b, tot_b, tot_a)

\* lines 183-186: the fill of a frame
fd_fill(h, frame, depth, tot_a, tot_b) ==
    IF depth = 0 THEN {Gray}
    ELSE delta_color(h[frame].count_a, h[frame].count_b, tot_a, tot_b)

-----------------------------------------------------------------------------
(* flamediff.py: main, one action per step *)

\* lines 343-351: before_file and after_file from -a, -b and the positionals
resolve_before(ar) ==
    IF Len(ar.files) >= 1 THEN Or(ar.before, Some(ar.files[1])) ELSE ar.before

\* after_file taken from the first positional when there is no second one
resolve_after_from_first(ar) ==
    IF Len(ar.files) >= 2 THEN Or(ar.after, Some(ar.files[2]))
    ELSE IF Len(ar.files) = 1 THEN Or(ar.after, Some(ar.files[1]))
    ELSE ar.after

resolve_after(ar) ==
    IF Len(ar.files) >= 2 THEN Or(ar.after, Some(ar.files[2])) ELSE ar.after

\* parser.error(): argparse prints the usage and the message and exits with 2
EXIT_USAGE == 2

\* lines 342-353: the input files are resolved; parser.error ends the run when
\* one of them is missing
fd_Resolve ==
    /\ pc = "fd_args"
    /\ before_file' = resolve_before(args)
    /\ after_file' = resolve_after(args)
    /\ IF ~Truthy(before_file') \/ ~Truthy(after_file')
       THEN /\ stderr' = Append(stderr, "flamediff.py: error: Need two input files")
            /\ pc' = "exit" /\ exit_code' = EXIT_USAGE
       ELSE pc' = "fd_open" /\ UNCHANGED <<stderr, exit_code>>
    /\ UNCHANGED <<idx, total, stacks, file_a, file_b, stacks_a, total_a, stacks_b,
                   total_b, all_stacks, dnodes, width, todo, out, run, prev, args,
                   opened, written>>
    /\ UNCHANGED fgOnly /\ UNCHANGED colorVars /\ UNCHANGED md5Vars

\* lines 355-356: before_file is opened and parse_folded entered
fd_Open ==
    /\ pc = "fd_open"
    /\ opened' = Open(before_file, "r")
    /\ pc' = "fd_parse_a" /\ stacks' = <<>> /\ total' = 0 /\ idx' = 1
    /\ UNCHANGED <<file_a, file_b, stacks_a, total_a, stacks_b, total_b, all_stacks,
                   dnodes, width, todo, out, exit_code, run, prev, stderr, written>>
    /\ UNCHANGED fgOnly /\ UNCHANGED colorVars /\ UNCHANGED md5Vars /\ UNCHANGED argVars

\* the file parse_folded is reading
fd_cur == IF pc = "fd_parse_a" THEN file_a ELSE file_b

\* lines 69-84: one iteration of the for loop of parse_folded
fd_ParseLine ==
    /\ pc \in {"fd_parse_a", "fd_parse_b"} /\ idx <= Len(fd_cur)
    /\ IF fd_accepted(fd_cur[idx])
       THEN /\ stacks' = fd_stacks_add(stacks, fd_stack_str(fd_cur[idx]),
                                       fd_count(fd_cur[idx]))
            /\ total' = total + fd_count(fd_cur[idx])
       ELSE UNCHANGED <<stacks, total>>
    /\ idx' = idx + 1
    /\ UNCHANGED <<pc, file_a, file_b, stacks_a, total_a, stacks_b, total_b, all_stacks,
                   dnodes, width, todo, out, exit_code, run, prev>>
    /\ UNCHANGED fgOnly /\ UNCHANGED colorVars /\ UNCHANGED md5Vars /\ UNCHANGED argVars /\ UNCHANGED ioVars

\* line 85 and lines 356-358: the first parse returns into stacks_a, total_a;
\* after_file is opened and parse_folded entered again
fd_ParseReturnA ==
    /\ pc = "fd_parse_a" /\ idx > Len(file_a)
    /\ stacks_a' = stacks /\ total_a' = total
    /\ opened' = Open(after_file, "r")
    /\ pc' = "fd_parse_b" /\ stacks' = <<>> /\ total' = 0 /\ idx' = 1
    /\ UNCHANGED <<file_a, file_b, stacks_b, total_b, all_stacks,
                   dnodes, width, todo, out, exit_code, run, prev, stderr, written>>
    /\ UNCHANGED fgOnly /\ UNCHANGED colorVars /\ UNCHANGED md5Vars /\ UNCHANGED argVars

\* line 85 and lines 358-369: the second parse returns into stacks_b, total_b;
\* a profile without samples ends the run, otherwise build_diff_tree is entered:
\* root = DiffFrame("root"), all_stacks = the union of the keys
fd_ParseReturnB ==
    /\ pc = "fd_parse_b" /\ idx > Len(file_b)
    /\ stacks_b' = stacks /\ total_b' = total
    /\ IF total_a = 0 \/ total = 0
       THEN /\ stderr' = Append(stderr, IF total_a = 0
                                        THEN "flamediff.py: no samples in before_file"
                                        ELSE "flamediff.py: no samples in after_file")
            /\ pc' = "exit" /\ exit_code' = 1
            /\ UNCHANGED <<all_stacks, dnodes>>
       ELSE /\ stderr' = Append(stderr, "flamediff.py: before, after samples")
            /\ pc' = "fd_build"
            /\ dnodes' = <<DiffFrame(RootName)>>
            /\ all_stacks' = DOMAIN stacks_a \cup DOMAIN stacks
            /\ UNCHANGED exit_code
    /\ UNCHANGED <<idx, total, stacks, file_a, file_b, stacks_a, total_a,
                   width, todo, out, run, prev, opened, written>>
    /\ UNCHANGED fgOnly /\ UNCHANGED colorVars /\ UNCHANGED md5Vars /\ UNCHANGED argVars

\* lines 97-112: one iteration of the for loop over the set all_stacks, which
\* Python visits in an order of its own
fd_BuildStep ==
    /\ pc = "fd_build"
    /\ \E stack_str \in all_stacks :
          /\ dnodes' = fd_add_path(dnodes, stacks_a, stacks_b, stack_str)
          /\ all_stacks' = all_stacks \ {stack_str}
    /\ UNCHANGED <<pc, idx, total, stacks, file_a, file_b, stacks_a, total_a,
                   stacks_b, total_b, width, todo, out, exit_code, run, prev>>
    /\ UNCHANGED fgOnly /\ UNCHANGED colorVars /\ UNCHANGED md5Vars /\ UNCHANGED argVars /\ UNCHANGED ioVars

\* rendering entered while call paths are still waiting to be put in the tree
fd_RenderSvg_before_built ==
    /\ pc = "fd_build"
    /\ opened' = IF Truthy(args.output) THEN Open(args.output, "w") ELSE opened
    /\ dnodes' = d_sort_children(dnodes)
    /\ out' = <<>>
    /\ written' = 10
    /\ todo' = <<[frame |-> 1, depth |-> 0, x_left |-> RInt(MARGIN),
                  x_width |-> RInt(width - 2 * MARGIN)]>>
    /\ pc' = "fd_render_frame"
    /\ UNCHANGED <<idx, total, stacks, file_a, file_b, stacks_a, total_a,
                   stacks_b, total_b, all_stacks, width, exit_code, run, prev, stderr>>
    /\ UNCHANGED fgOnly /\ UNCHANGED colorVars /\ UNCHANGED md5Vars /\ UNCHANGED argVars

\* line 114 and lines 371-375: build_diff_tree returns and the output is opened
\* when args.output is given; lines 281-322: render_diff_svg up to the call of
\* render_diff_frame on the root
fd_RenderSvg ==
    /\ pc = "fd_build" /\ all_stacks = {}
    /\ opened' = IF Truthy(args.output) THEN Open(args.output, "w") ELSE opened
    /\ dnodes' = d_sort_children(dnodes)
    /\ out' = <<>>
    /\ written' = 10
    /\ todo' = <<[frame |-> 1, depth |-> 0, x_left |-> RInt(MARGIN),
                  x_width |-> RInt(width - 2 * MARGIN)]>>
    /\ pc' = "fd_render_frame"
    /\ UNCHANGED <<idx, total, stacks, file_a, file_b, stacks_a, total_a,
                   stacks_b, total_b, all_stacks, width, exit_code, run, prev, stderr>>
    /\ UNCHANGED fgOnly /\ UNCHANGED colorVars /\ UNCHANGED md5Vars /\ UNCHANGED argVars

\* lines 175-233: one call of render_diff_frame, its recursive calls left pending
fd_RenderFrame ==
    /\ pc = "fd_render_frame" /\ todo # <<>>
    /\ LET call == Head(todo)
       IN  \E below \in RBelow(call.x_width, MIN_WIDTH_PX) :
           IF below
           THEN todo' = Tail(todo) /\ UNCHANGED <<out, written>>
           ELSE /\ \E fill \in fd_fill(dnodes, call.frame, call.depth, total_a, total_b),
                      label \in fd_label(dnodes[call.frame].name, call.x_width) :
                      /\ out' = Append(out, [id |-> Len(out), frame |-> call.frame,
                                             depth |-> call.depth, x_left |-> call.x_left,
                                             x_width |-> call.x_width, fill |-> fill,
                                             label |-> label])
                      /\ written' = written + fd_frame_writes(label)
                /\ todo' = fd_child_calls(dnodes, call.frame, dnodes[call.frame].children,
                                          call.depth, call.x_left, call.x_width)
                           \o Tail(todo)
    /\ UNCHANGED <<pc, idx, total, stacks, file_a, file_b, stacks_a, total_a,
                   stacks_b, total_b, all_stacks, dnodes, width, exit_code, run, prev>>
    /\ UNCHANGED <<opened, stderr>>
    /\ UNCHANGED fgOnly /\ UNCHANGED colorVars /\ UNCHANGED md5Vars /\ UNCHANGED argVars

\* lines 324-325 and 377: the document is closed and main returns
fd_Done ==
    /\ pc = "fd_render_frame" /\ todo = <<>>
    /\ written' = written + 2
    /\ stderr' = Append(stderr, "flamediff.py: done")
    /\ pc' = "done" /\ exit_code' = 0
    /\ UNCHANGED <<idx, total, stacks, file_a, file_b, stacks_a, total_a, stacks_b,
                   total_b, all_stacks, dnodes, width, todo, out, run, prev, opened>>
    /\ UNCHANGED fgOnly /\ UNCHANGED colorVars /\ UNCHANGED md5Vars /\ UNCHANGED argVars

fd_Next ==
    \/ fd_Resolve \/ fd_Open \/ fd_ParseLine \/ fd_ParseReturnA \/ fd_ParseReturnB
    \/ fd_BuildStep \/ fd_RenderSvg \/ fd_RenderFrame \/ fd_Done

\* longest profile of the differential tool, in lines
MaxDiffLines == 2

\* the inputs of the differential tool: lines of the "before" profile
DiffPool ==
    { <<"a", ";", "b", " ", "5", "\n">>,
      <<" ", "a", ";", "b", " ", "x", "\n">>,
      <<"b", " ", "-", "2", "\n">>,
      <<"#", " ", "c", "\n">>,
      <<"\n">>,
      <<"b", "a", "b">> }

\* lines of the "after" profile
AfterPool ==
    { <<"a", ";", "b", " ", "1", "0", "\n">>,
      <<"a", ";", "c", " ", "5", "\n">>,
      <<"a", " ", "2", "\n">>,
      <<"#", " ", "c", "\n">> }

\* the command line `p q`: two positional files, output to sys.stdout
fd_DefaultArgs == [files |-> <<"p", "q">>, before |-> None, after |-> None, output |-> None]

\* file_a and file_b are what readlines() returns for before_file and after_file
fd_InitArgs(pool_a, pool_b, widths, argset) ==
    /\ pc = "fd_args"
    /\ file_a \in SeqsUpTo(pool_a, MaxDiffLines)
    /\ file_b \in SeqsUpTo(pool_b, MaxDiffLines)
    /\ stacks = <<>> /\ stacks_a = <<>> /\ total_a = 0 /\ stacks_b = <<>> /\ total_b = 0
    /\ all_stacks = {} /\ dnodes = <<>>
    /\ idx = 0 /\ total = 0
    /\ width \in widths
    /\ exit_code = -1 /\ run = 1 /\ prev = <<>>
    /\ args \in argset /\ before_file = None /\ after_file = None
    /\ md5 = <<>> /\ hashes = {}
    /\ IdleFG /\ IdleRender /\ IdleColor /\ IdleIO

fd_Init(pool_a, pool_b, widths) == fd_InitArgs(pool_a, pool_b, widths, {fd_DefaultArgs})

-----------------------------------------------------------------------------
(* Specifications *)

\* either tool is run once on some input
Init == fg_Init(LinePool, MaxLines, {DefaultWidth}) \/ fd_Init(DiffPool, AfterPool, {DefaultWidth})

Next == fg_Next \/ fd_Next

Spec == Init /\ [][Next]_vars

\* flamegraph.py alone
SpecFG == fg_Init(LinePool, MaxLines, {DefaultWidth}) /\ [][fg_Next]_vars

\* flamediff.py alone
SpecFD == fd_Init(DiffPool, AfterPool, {DefaultWidth}) /\ [][fd_Next]_vars

-----------------------------------------------------------------------------
(* A second execution on the same input in another line order *)

\* the tree below object id as a value: names, counts and children in list order
RECURSIVE TreeOf(_, _)
TreeOf(h, id) ==
    [name |-> h[id].name, count |-> h[id].count, self_count |-> h[id].self_count,
     kids |-> [k \in 1..Len(h[id].children) |-> TreeOf(h, h[id].children[k])]]

RECURSIVE DTreeOf(_, _)
DTreeOf(h, id) ==
    [name |-> h[id].name, count_a |-> h[id].count_a, count_b |-> h[id].count_b,
     self_a |-> h[id].self_a, self_b |-> h[id].self_b,
     kids |-> [k \in 1..Len(h[id].children) |-> DTreeOf(h, h[id].children[k])]]

\* the rearrangements of a sequence
Perms(s) == {[k \in 1..Len(s) |-> s[p[k]]] : p \in Permutations(1..Len(s))}

\* flamegraph.py has finished; it is started again on the same lines in any order
fg_RunAgain ==
    /\ run = 1 /\ pc = "done" /\ nodes # <<>>
    /\ prev' = [tree |-> TreeOf(nodes, 1), total |-> total, lines |-> lines]
    /\ lines' \in Perms(lines)
    /\ run' = 2 /\ pc' = "fg_read" /\ idx' = 0 /\ total' = 0 /\ nodes' = <<>>
    /\ todo' = <<>> /\ out' = <<>> /\ exit_code' = -1
    /\ opened' = <<>> /\ stderr' = <<>> /\ written' = 0
    /\ UNCHANGED width /\ UNCHANGED fdVars /\ UNCHANGED colorVars /\ UNCHANGED md5Vars /\ UNCHANGED argVars

\* flamediff.py has finished; it is started again on the same two files, the
\* lines of each in any order
fd_RunAgain ==
    /\ run = 1 /\ pc = "done" /\ dnodes # <<>>
    /\ prev' = [tree |-> DTreeOf(dnodes, 1), total_a |-> total_a, total_b |-> total_b,
                file_a |-> file_a, file_b |-> file_b]
    /\ file_a' \in Perms(file_a) /\ file_b' \in Perms(file_b)
    /\ run' = 2 /\ pc' = "fd_open" /\ idx' = 0 /\ total' = 0
    /\ stacks' = <<>> /\ stacks_a' = <<>> /\ total_a' = 0 /\ stacks_b' = <<>> /\ total_b' = 0
    /\ all_stacks' = {} /\ dnodes' = <<>>
    /\ todo' = <<>> /\ out' = <<>> /\ exit_code' = -1
    /\ opened' = <<>> /\ stderr' = <<>> /\ written' = 0
    /\ UNCHANGED width /\ UNCHANGED fgOnly /\ UNCHANGED colorVars /\ UNCHANGED md5Vars /\ UNCHANGED argVars

PermPool ==
    { <<"a", ";", "b", " ", "5", "\n">>,
      <<"a", ";", "c", " ", "5", "\n">>,
      <<"a", " ", "2", "\n">>,
      <<"b", " ", "x", "\n">> }

PermPoolA ==
    { <<"a", ";", "b", " ", "5", "\n">>,
      <<" ", "a", ";", "b", " ", "x", "\n">>,
      <<"b", " ", "-", "2", "\n">> }

PermPoolB ==
    { <<"a", ";", "b", " ", "1", "0", "\n">>,
      <<"a", ";", "c", " ", "5", "\n">> }

SpecPerm ==
    /\ fg_Init(PermPool, MaxLines, {DefaultWidth}) \/ fd_Init(PermPoolA, PermPoolB, {DefaultWidth})
    /\ [][fg_Next \/ fd_Next \/ fg_RunAgain \/ fd_RunAgain]_vars

-----------------------------------------------------------------------------
(* flamegraph.py on the default and on a narrow canvas *)

\* values of --width: the default, and one that leaves the root 1 pixel wide
Widths == {DefaultWidth, 2 * MARGIN + 1}

SpecRender == fg_Init(LinePool, MaxLines, Widths) /\ [][fg_Next]_vars

-----------------------------------------------------------------------------
(* delta_color called on its own *)

\* largest count and largest total of a call, a round total apart
MaxColorCount == 3
MaxColorTotal == 33

ColorCounts == 0..MaxColorCount
ColorTotals == (0..MaxColorTotal) \cup {1000}

color_Init ==
    /\ pc = "color_call"
    /\ cargs \in [count_a : ColorCounts, count_b : ColorCounts,
                  total_a : ColorTotals, total_b : ColorTotals]
    /\ cret = <<>>
    /\ idx = 0 /\ total = 0 /\ width = DefaultWidth
    /\ exit_code = -1 /\ run = 1 /\ prev = <<>>
    /\ args = <<>> /\ before_file = None /\ after_file = None
    /\ md5 = <<>> /\ hashes = {}
    /\ IdleFG /\ IdleFD /\ IdleRender /\ IdleIO

\* lines 119-154: the call returns
color_Call ==
    /\ pc = "color_call"
    /\ cret' \in delta_color(cargs.count_a, cargs.count_b, cargs.total_a, cargs.total_b)
    /\ pc' = "color_done"
    /\ UNCHANGED <<cargs, idx, total, width, todo, out, exit_code, run, prev>>
    /\ UNCHANGED fgOnly /\ UNCHANGED fdVars /\ UNCHANGED argVars /\ UNCHANGED ioVars
    /\ UNCHANGED md5Vars

SpecColor == color_Init /\ [][color_Call]_vars

-----------------------------------------------------------------------------
(* flamediff.py on profiles that may be multiples of one another *)

ScalePoolA ==
    { <<"a", ";", "b", " ", "5", "\n">>,
      <<"a", ";", "c", " ", "5", "\n">>,
      <<"a", " ", "1", "\n">> }

ScalePoolB ==
    { <<"a", ";", "b", " ", "1", "0", "\n">>,
      <<"a", ";", "c", " ", "5", "\n">>,
      <<"a", " ", "2", "\n">> }

SpecScale == fd_Init(ScalePoolA, ScalePoolB, {DefaultWidth}) /\ [][fd_Next]_vars

-----------------------------------------------------------------------------
(* parse_folded called a second time, on the input without its skipped lines *)

\* the line is blank after stripping, begins with '#', or contains no space
Skippable(line) ==
    LET l == strip(line)
    IN  \/ \A k \in 1..Len(line) : IsSpace(line[k])
        \/ (l # <<>> /\ l[1] = "#")
        \/ \A k \in 1..Len(l) : l[k] # " "

\* the input with those lines removed
RECURSIVE Kept(_)
Kept(ls) ==
    IF ls = <<>> THEN <<>>
    ELSE IF Skippable(Head(ls)) THEN Kept(Tail(ls))
    ELSE <<Head(ls)>> \o Kept(Tail(ls))

\* flamegraph.py's parse_folded has returned; it is called again on the kept lines
fg_Reparse ==
    /\ run = 1 /\ pc \in {"fg_render_svg", "exit"} /\ nodes # <<>>
    /\ prev' = [nodes |-> nodes, total |-> total, lines |-> lines]
    /\ lines' = Kept(lines)
    /\ run' = 2 /\ pc' = "fg_parse" /\ idx' = 1 /\ total' = 0
    /\ nodes' = <<Frame(RootName)>>
    /\ exit_code' = -1
    /\ UNCHANGED <<width, todo, out>> /\ UNCHANGED fdVars /\ UNCHANGED colorVars /\ UNCHANGED md5Vars
    /\ UNCHANGED argVars /\ UNCHANGED ioVars

\* flamediff.py's parse_folded has returned for both files and build_diff_tree has
\* not started; both files are parsed again, each without its skipped lines
fd_Reparse ==
    /\ run = 1 /\ Truthy(before_file) /\ Truthy(after_file)
    /\ \/ pc = "exit"
       \/ pc = "fd_build" /\ Len(dnodes) = 1
          /\ all_stacks = DOMAIN stacks_a \cup DOMAIN stacks_b
    /\ prev' = [stacks_a |-> stacks_a, total_a |-> total_a,
                stacks_b |-> stacks_b, total_b |-> total_b,
                file_a |-> file_a, file_b |-> file_b]
    /\ file_a' = Kept(file_a) /\ file_b' = Kept(file_b)
    /\ run' = 2 /\ pc' = "fd_open" /\ idx' = 0 /\ total' = 0
    /\ stacks' = <<>> /\ stacks_a' = <<>> /\ total_a' = 0 /\ stacks_b' = <<>> /\ total_b' = 0
    /\ all_stacks' = {} /\ dnodes' = <<>>
    /\ exit_code' = -1
    /\ UNCHANGED <<width, todo, out>> /\ UNCHANGED fgOnly /\ UNCHANGED colorVars /\ UNCHANGED md5Vars
    /\ UNCHANGED argVars /\ UNCHANGED ioVars

\* longest input of this specification, in lines
MaxSkipLines == 4

SkipPool ==
    { <<"#", " ", "c", "\n">>,
      <<"\n">>,
      <<"b", "a", "b">>,
      <<"x", ";", "y", " ", "3">>,
      <<"a", " ", "2", "\n">> }

SkipPoolB ==
    { <<" ", "#", "\n">>,
      <<"b", "a", "b">>,
      <<"x", ";", "y", " ", "3">> }

SpecSkip ==
    /\ fg_Init(SkipPool, MaxSkipLines, {DefaultWidth})
       \/ fd_Init(SkipPool, SkipPoolB, {DefaultWidth})
    /\ [][fg_Next \/ fd_Next \/ fg_Reparse \/ fd_Reparse]_vars

-----------------------------------------------------------------------------
(* Both tools on lines whose trailing token is zero, negative or not a number *)

CountPool ==
    { <<"a", " ", "0", "\n">>,
      <<"a", ";", "b", " ", "-", "2", "\n">>,
      <<"a", " ", "b", " ", "x", "\n">>,
      <<"b", " ", "3", "\n">>,
      <<"#", " ", "5", "\n">>,
      <<" ", "5", " ", "\n">> }

CountPoolB ==
    { <<"a", " ", "-", "\n">>,
      <<"a", " ", "+", "2">>,
      <<"\t", "\n">> }

SpecCount ==
    /\ fg_Init(CountPool, MaxLines, {DefaultWidth})
       \/ fd_Init(CountPool, CountPoolB, {DefaultWidth})
    /\ [][fg_Next \/ fd_Next]_vars

-----------------------------------------------------------------------------
(* Both tools on profiles that may hold no sample, with and without -o *)

ExitPool ==
    { <<"#", " ", "c", "\n">>,
      <<"\n">>,
      <<"a", ";", "b", " ", "5", "\n">>,
      <<"b", "a", "b">> }

ExitPoolB ==
    { <<" ", "#", "\n">>,
      <<"a", " ", "2", "\n">>,
      <<"5">> }

\* flamegraph.py: input from stdin or a file; output to stdout or a file,
\* `-o ''` included
fg_ExitArgs == [input : {None, Some("p")}, output : {None, Some("o"), Some("")}]

\* flamediff.py: two positional files; output to stdout or a file
fd_ExitArgs == [files : {<<"p", "q">>}, before : {None}, after : {None},
                output : {None, Some("o")}]

SpecExit ==
    /\ fg_InitArgs(ExitPool, MaxLines, {DefaultWidth}, fg_ExitArgs)
       \/ fd_InitArgs(ExitPool, ExitPoolB, {DefaultWidth}, fd_ExitArgs)
    /\ [][fg_Next \/ fd_Next]_vars

-----------------------------------------------------------------------------
(* flamediff.py on command lines with zero to three positionals, -a and -b *)

ArgPoolA ==
    { <<"a", ";", "b", " ", "5", "\n">>,
      <<"#", " ", "c", "\n">> }

ArgPoolB ==
    { <<"a", " ", "2", "\n">> }

\* the positionals: none, one, two, three, and empty strings among them
ArgFiles == {<<>>, <<"p">>, <<"p", "q">>, <<"p", "q", "r">>, <<"">>, <<"", "q">>, <<"p", "">>}

fd_ArgSet == [files : ArgFiles, before : {None, Some("a"), Some("")},
              after : {None, Some("b")}, output : {None}]

SpecArgs == fd_InitArgs(ArgPoolA, ArgPoolB, {DefaultWidth}, fd_ArgSet) /\ [][fd_Next]_vars

-----------------------------------------------------------------------------
(* flamegraph.py with names that recur in the tree, over several MD5 prefixes *)

PalettePool ==
    { <<"a", ";", "b", " ", "1", "\n">>,
      <<"b", ";", "a", " ", "1", "\n">>,
      <<"b", " ", "2", "\n">> }

\* 0 and 2^32 - 1; hue 59, sat 214, val 255; a prefix whose green product is
\* an integer, and one whose blue product is
PalettePrefixes ==
    { [hi |-> 0, lo |-> 0], [hi |-> 65535, lo |-> 65535], [hi |-> 55, lo |-> 13879],
      [hi |-> 0, lo |-> 514], [hi |-> 55, lo |-> 11264] }

\* each prefix with every way float rounding can affect int() on it
PaletteHashes ==
    {[hi |-> h.hi, lo |-> h.lo, low |-> low] :
        h \in PalettePrefixes, low \in [1..3 -> BOOLEAN]} \cap
    {h \in [hi : 0..65535, lo : 0..65535, low : [1..3 -> BOOLEAN]] :
        \A k \in 1..3 : h.low[k] => channel_products(h)[k].d = 1}

SpecPalette ==
    /\ fg_InitHashes(PalettePool, MaxLines, {DefaultWidth}, {fg_DefaultArgs}, PaletteHashes)
    /\ [][fg_Next]_vars

-----------------------------------------------------------------------------
(* Both renderers on the default and on a narrow canvas *)

SpecLayout ==
    /\ fg_Init(LinePool, MaxLines, Widths) \/ fd_Init(ScalePoolA, ScalePoolB, Widths)
    /\ [][fg_Next \/ fd_Next]_vars

-----------------------------------------------------------------------------
(* Both renderers on canvases where names do not fit their rectangles *)

\* values of --width: the default, and two that leave the root 25 and 32 wide
LabelWidths == {DefaultWidth, 2 * MARGIN + 25, 2 * MARGIN + 32}

SpecLabel ==
    /\ fg_Init(PermPool, MaxLines, LabelWidths)
       \/ fd_Init(ScalePoolA, ScalePoolB, LabelWidths)
    /\ [][fg_Next \/ fd_Next]_vars

-----------------------------------------------------------------------------
(* flamegraph.py on a profile, then flamediff.py on that profile twice *)

\* flamegraph.py's parse_folded has returned and its main has ended, with the
\* document written or with "no samples"; flamediff.py is started with the same
\* file as its before_file and as its after_file
fg_ThenDiff ==
    /\ run = 1 /\ pc \in {"done", "exit"} /\ nodes # <<>> /\ Truthy(args.input)
    /\ prev' = [tree |-> TreeOf(nodes, 1), total |-> total, lines |-> lines]
    /\ args' = [files |-> <<args.input[1], args.input[1]>>, before |-> None,
                after |-> None, output |-> args.output]
    /\ file_a' = lines /\ file_b' = lines
    /\ lines' = <<>> /\ nodes' = <<>>
    /\ run' = 2 /\ pc' = "fd_args" /\ idx' = 0 /\ total' = 0
    /\ todo' = <<>> /\ out' = <<>> /\ exit_code' = -1
    /\ opened' = <<>> /\ stderr' = <<>> /\ written' = 0
    /\ UNCHANGED <<stacks, stacks_a, total_a, stacks_b, total_b, all_stacks, dnodes,
                   width, before_file, after_file>>
    /\ UNCHANGED colorVars /\ UNCHANGED md5Vars

\* lines of the profile given to both tools
SamePool ==
    { <<"a", ";", "b", " ", "5", "\n">>,
      <<"a", ";", "c", " ", "5", "\n">>,
      <<"a", " ", "2", "\n">>,
      <<"b", " ", "-", "2", "\n">>,
      <<"#", " ", "c", "\n">> }

SpecSame ==
    /\ fg_Init(SamePool, MaxLines, {DefaultWidth})
    /\ [][fg_Next \/ fg_ThenDiff \/ fd_Next]_vars

-----------------------------------------------------------------------------
(* Vocabulary of the properties *)

\* the object whose children list holds id
ParentOf(h, id) == CHOOSE p \in 1..Len(h) : \E k \in 1..Len(h[p].children) : h[p].children[k] = id

\* the frame names on the way from the root to object id, root excluded
RECURSIVE PathOf(_, _)
PathOf(h, id) == IF id = 1 THEN <<>> ELSE Append(PathOf(h, ParentOf(h, id)), h[id].name)

IsPrefix(s, t) == Len(s) <= Len(t) /\ SubSeq(t, 1, Len(s)) = s

\* the non-empty frame-wise prefixes of a call path
PrefixesOf(path) == {SubSeq(path, 1, j) : j \in 1..Len(path)}

\* the sum of f[k] over k in S
RECURSIVE SumOver(_, _)
SumOver(f, S) ==
    IF S = {} THEN 0
    ELSE LET k == CHOOSE x \in S : TRUE IN f[k] + SumOver(f, S \ {k})

\* the sum of the inclusive counts of the children of a Frame
RECURSIVE ChildCountSum(_, _)
ChildCountSum(h, cs) ==
    IF cs = <<>> THEN 0 ELSE h[Head(cs)].count + ChildCountSum(h, Tail(cs))

\* the lines parse_folded of flamegraph.py has gone through and accepted
fg_seen == {k \in 1..(idx - 1) : fg_accepted(lines[k])}
fg_path(k) == split(fg_stack_str(lines[k]), ";")
fg_counts == [k \in 1..(idx - 1) |-> IF fg_accepted(lines[k]) THEN fg_count(lines[k]) ELSE 0]

fg_has_tree == pc \in {"fg_parse", "fg_render_svg", "fg_render_frame", "done"} /\ nodes # <<>>

\* the object of heap h with the given path, 0 when there is none
NodeAt(h, path) ==
    IF \E id \in 1..Len(h) : PathOf(h, id) = path
    THEN CHOOSE id \in 1..Len(h) : PathOf(h, id) = path
    ELSE 0

-----------------------------------------------------------------------------
(* Properties *)

\* C1: after any sequence of lines, the tree of flamegraph.py's parse_folded has
\* exactly one node per distinct non-empty prefix of the accepted call paths; a
\* node's count is the sum of the counts of the accepted lines whose path has the
\* node's path as a prefix, and its self_count the sum over the accepted lines
\* whose path is the node's path.
C1_TreeIsPrefixSums ==
    fg_has_tree =>
        LET prefixes == UNION {PrefixesOf(fg_path(k)) : k \in fg_seen}
        IN  /\ Len(nodes) - 1 = Cardinality(prefixes)
            /\ {PathOf(nodes, id) : id \in 2..Len(nodes)} = prefixes
            /\ \A id \in 1..Len(nodes) :
                  /\ nodes[id].count =
                        SumOver(fg_counts, {k \in fg_seen : IsPrefix(PathOf(nodes, id), fg_path(k))})
                  /\ nodes[id].self_count =
                        SumOver(fg_counts, {k \in fg_seen : fg_path(k) = PathOf(nodes, id)})

\* C1 case: 'a;b 5' and 'a;c 5' have been parsed: root 10, a 10, b 5/5, c 5/5
C1_Witness ==
    /\ pc = "fg_render_svg" /\ total = 10 /\ Len(nodes) = 4
    /\ nodes[1].count = 10
    /\ LET a == NodeAt(nodes, <<<<"a">>>>)
           b == NodeAt(nodes, <<<<"a">>, <<"b">>>>)
           c == NodeAt(nodes, <<<<"a">>, <<"c">>>>)
       IN  /\ a # 0 /\ b # 0 /\ c # 0
           /\ nodes[a].count = 10 /\ nodes[a].self_count = 0
           /\ nodes[b].count = 5 /\ nodes[b].self_count = 5
           /\ nodes[c].count = 5 /\ nodes[c].self_count = 5

\* C2: in single-profile mode, after every line parse_folded has processed, every
\* node, root included, has count = self_count + the sum of its children's count.
C2_InclusiveIsSelfPlusChildren ==
    \A id \in 1..Len(nodes) :
        nodes[id].count = nodes[id].self_count + ChildCountSum(nodes, nodes[id].children)

\* C2 case: in the middle of the parse, a node has both a self count and children
C2_Witness ==
    /\ pc = "fg_parse" /\ idx <= Len(lines)
    /\ \E id \in 2..Len(nodes) :
          /\ nodes[id].self_count > 0 /\ nodes[id].children # <<>>
          /\ nodes[id].count > nodes[id].self_count

\* build_diff_tree has returned
fd_built == pc \in {"fd_build", "fd_render_frame", "done"} /\ all_stacks = {} /\ dnodes # <<>>

\* C3: the root's inclusive count equals the total the parser returned:
\* root.count = total in flamegraph.py; root.count_a = total_a and
\* root.count_b = total_b in flamediff.py once build_diff_tree has returned.
C3_RootCountIsTotal ==
    /\ fg_has_tree => nodes[1].count = total
    /\ fd_built => dnodes[1].count_a = total_a /\ dnodes[1].count_b = total_b

\* C3 case: a merged tree built from two profiles of different totals
C3_Witness ==
    /\ fd_built /\ Len(dnodes) >= 4
    /\ total_a > 1 /\ total_b > total_a
    /\ dnodes[1].count_a = total_a /\ dnodes[1].count_b = total_b

\* the lines parse_folded of flamediff.py has gone through and accepted
fd_parsing == pc \in {"fd_parse_a", "fd_parse_b"}
fd_seen == {k \in 1..(idx - 1) : fd_accepted(fd_cur[k])}
fd_counts == [k \in 1..(idx - 1) |-> IF fd_accepted(fd_cur[k]) THEN fd_count(fd_cur[k]) ELSE 0]

\* C4: flamediff.py's parse_folded aggregates by call-path string: the mapping has
\* one entry per call-path string of the accepted lines, its value the sum of the
\* counts of the lines with that string (a + b for two lines), and the total is
\* the sum of the values of the entries, also as returned to main.
C4_AggregatesByPath ==
    /\ fd_parsing =>
          /\ DOMAIN stacks = {fd_stack_str(fd_cur[k]) : k \in fd_seen}
          /\ \A key \in DOMAIN stacks :
                stacks[key] =
                    SumOver(fd_counts, {k \in fd_seen : fd_stack_str(fd_cur[k]) = key})
          /\ total = SumOver(stacks, DOMAIN stacks)
    /\ pc \notin {"fd_open", "fd_parse_a"} => total_a = SumOver(stacks_a, DOMAIN stacks_a)
    /\ pc \notin {"fd_open", "fd_parse_a", "fd_parse_b"} =>
          total_b = SumOver(stacks_b, DOMAIN stacks_b)

\* C4 case: two accepted lines with the same call path and different counts a, b
\* have been parsed into one entry of value a + b
C4_Witness ==
    /\ pc = "fd_parse_a" /\ idx > Len(file_a)
    /\ \E i, j \in fd_seen :
          /\ i < j
          /\ fd_stack_str(file_a[i]) = fd_stack_str(file_a[j])
          /\ fd_count(file_a[i]) # fd_count(file_a[j])
          /\ stacks[fd_stack_str(file_a[i])] = fd_count(file_a[i]) + fd_count(file_a[j])
          /\ Cardinality(DOMAIN stacks) = 1

\* C5: for any input and any permutation of its lines, the tree after
\* sort_children (shape, sibling order, inclusive and self counts) and the totals
\* are the same, in flamegraph.py and in flamediff.py, in whatever order the set
\* of call paths is iterated.
C5_LineOrderIrrelevant ==
    /\ (run = 2 /\ pc \in {"fg_render_frame", "done"} /\ nodes # <<>>) =>
          TreeOf(nodes, 1) = prev.tree /\ total = prev.total
    /\ (run = 2 /\ pc \in {"fd_render_frame", "done"} /\ dnodes # <<>>) =>
          /\ DTreeOf(dnodes, 1) = prev.tree
          /\ total_a = prev.total_a /\ total_b = prev.total_b

\* C5 case: the second execution read 'a;c' before 'a;b', the first the other
\* way round, and both ended with the same sorted tree of two siblings
C5_Witness ==
    /\ run = 2 /\ pc = "done" /\ nodes # <<>>
    /\ Len(lines) >= 2 /\ lines # prev.lines
    /\ fg_path(1) = <<<<"a">>, <<"c">>>> /\ prev.lines[1] = lines[2]
    /\ split(fg_stack_str(lines[2]), ";") = <<<<"a">>, <<"b">>>>
    /\ \E id \in 1..Len(nodes) : Len(nodes[id].children) = 2
    /\ TreeOf(nodes, 1) = prev.tree

\* the step is a call of render_frame that draws its frame
fg_Draws == pc = "fg_render_frame" /\ Len(out') = Len(out) + 1

\* the widths that call assigns to the children of its frame, in order
fg_AssignedWidths ==
    [k \in 1..Len(nodes[out'[Len(out')].frame].children) |-> todo'[k].x_width]

\* C6 as claimed: at every rendered node with children none of which falls below
\* the visibility threshold, the children's widths sum to the node's width.
C6_Original ==
    [][fg_Draws =>
         LET e == out'[Len(out')]
             w == fg_AssignedWidths
         IN  (Len(w) > 0 /\ \A k \in 1..Len(w) : ~RLess(w[k], MIN_WIDTH_PX))
                 => RSum(w) = e.x_width]_vars

\* C6 amended: at every rendered node the widths assigned to its children sum to
\* the node's width times (count - self_count) / count; they sum to the node's
\* own width exactly when the node's self_count is 0.
C6_ChildWidthsSum ==
    [][fg_Draws =>
         LET e == out'[Len(out')]
             f == nodes[e.frame]
             w == fg_AssignedWidths
         IN  /\ f.count > 0
             /\ RSum(w) = RMul(e.x_width, Rat(f.count - f.self_count, f.count))
             /\ (RSum(w) = e.x_width) <=> (f.self_count = 0)]_vars

\* C6 case: a frame without self count has just been drawn and its two children,
\* both above the threshold, have been given widths that sum to its width
C6_Witness ==
    /\ pc = "fg_render_frame" /\ out # <<>>
    /\ LET e  == out[Len(out)]
           cs == nodes[e.frame].children
       IN  /\ e.depth > 0 /\ Len(cs) = 2 /\ Len(todo) >= 2
           /\ nodes[e.frame].self_count = 0
           /\ \A k \in 1..2 : todo[k].frame = cs[k] /\ todo[k].depth = e.depth + 1
                              /\ ~RLess(todo[k].x_width, MIN_WIDTH_PX)
           /\ RAdd(todo[1].x_width, todo[2].x_width) = e.x_width

\* rate_b - rate_a of the call as the fraction ColorNum / ColorDen, a rate being 0
\* when its total is 0
ColorDen ==
    (IF cargs.total_a > 0 THEN cargs.total_a ELSE 1)
    * (IF cargs.total_b > 0 THEN cargs.total_b ELSE 1)
ColorNum ==
    (IF cargs.total_b > 0
     THEN cargs.count_b * (IF cargs.total_a > 0 THEN cargs.total_a ELSE 1) ELSE 0)
    - (IF cargs.total_a > 0
       THEN cargs.count_a * (IF cargs.total_b > 0 THEN cargs.total_b ELSE 1) ELSE 0)

\* C7: delta_color returns neutral gray (200,200,200) whenever both totals are 0
\* and whenever the normalized rate difference has magnitude below 0.001.
C7_GrayWhenUnchanged ==
    (/\ pc = "color_done"
     /\ \/ cargs.total_a = 0 /\ cargs.total_b = 0
        \/ 1000 * Abs(ColorNum) < ColorDen)
        => cret = <<200, 200, 200>>

\* C7 case: two different non-zero rates less than 0.001 apart, returned gray
C7_Witness ==
    /\ pc = "color_done" /\ cargs.total_a > 0 /\ cargs.total_b > 0
    /\ cargs.count_a > 0 /\ cargs.count_b > 0
    /\ ColorNum # 0 /\ 1000 * Abs(ColorNum) < ColorDen
    /\ cret = <<200, 200, 200>>

\* C8: when rate_b exceeds rate_a by at least 0.001 the red channel is >= green
\* and blue; when rate_a exceeds rate_b by at least 0.001 the blue channel is >=
\* red and green; every channel lies in 0..255.
C8_RedOrBlueDominates ==
    pc = "color_done" =>
        /\ \A k \in 1..3 : cret[k] \in 0..255
        /\ Len(cret) = 3
        /\ 1000 * ColorNum >= ColorDen => cret[1] >= cret[2] /\ cret[1] >= cret[3]
        /\ 1000 * (0 - ColorNum) >= ColorDen => cret[3] >= cret[1] /\ cret[3] >= cret[2]

\* C8 case: an improvement between the threshold and full intensity, returned as
\* a colour whose blue channel is the largest
C8_Witness ==
    /\ pc = "color_done"
    /\ 1000 * (0 - ColorNum) >= ColorDen /\ 10 * (0 - ColorNum) < 3 * ColorDen
    /\ cret[3] > cret[2] /\ cret[2] > cret[1]

\* the "after" profile has the call paths of the "before" profile, every count
\* scaled by one positive factor
Scaled ==
    /\ DOMAIN stacks_a = DOMAIN stacks_b
    /\ \A k1, k2 \in DOMAIN stacks_a :
          stacks_a[k1] * stacks_b[k2] = stacks_a[k2] * stacks_b[k1]

\* C9: when the "after" profile is the "before" profile with every count scaled
\* by the same positive factor, every node of the merged tree has rate_a = rate_b
\* and is coloured neutral gray, whatever the raw counts.
C9_ScaledProfilesAreGray ==
    (fd_built /\ Scaled) =>
        /\ \A id \in 1..Len(dnodes) :
              /\ dnodes[id].count_a * total_b = dnodes[id].count_b * total_a
              /\ delta_color(dnodes[id].count_a, dnodes[id].count_b, total_a, total_b)
                    = {<<200, 200, 200>>}
        /\ \A k \in 1..Len(out) : out[k].fill = <<200, 200, 200>>

\* C9 case: two profiles of different totals, one a multiple of the other, with a
\* node below the full rate; every frame has been drawn, all of them gray
C9_Witness ==
    /\ pc = "done" /\ fd_built /\ Scaled
    /\ total_a # total_b /\ Len(dnodes) >= 3
    /\ \E id \in 2..Len(dnodes) : dnodes[id].count_a < total_a
    /\ Len(out) = Len(dnodes)
    /\ \A k \in 1..Len(out) : out[k].fill = <<200, 200, 200>>

\* the second call of flamegraph.py's parse_folded has returned
fg_reparsed ==
    /\ run = 2 /\ nodes # <<>>
    /\ pc \in {"fg_render_svg", "exit"} \/ (pc = "fg_parse" /\ idx > Len(lines))

\* both second calls of flamediff.py's parse_folded have returned
fd_reparsed ==
    run = 2 /\ nodes = <<>> /\ pc \notin {"fd_open", "fd_parse_a", "fd_parse_b"}

\* C10: in both parsers a line that is blank after stripping, begins with '#' or
\* contains no space is skipped: the iteration that reads it leaves the total, the
\* mapping and the tree as they were, and the parse returns what it returns for the
\* input with those lines removed.
C10_SkippedLinesChangeNothing ==
    [][/\ (pc = "fg_parse" /\ idx <= Len(lines) /\ idx' = idx + 1
              /\ Skippable(lines[idx]))
          => (total' = total /\ nodes' = nodes)
       /\ (fd_parsing /\ idx <= Len(fd_cur) /\ idx' = idx + 1 /\ Skippable(fd_cur[idx]))
          => (total' = total /\ stacks' = stacks)
       /\ fg_reparsed' => (nodes' = prev'.nodes /\ total' = prev'.total)
       /\ fd_reparsed' =>
             /\ stacks_a' = prev'.stacks_a /\ total_a' = prev'.total_a
             /\ stacks_b' = prev'.stacks_b /\ total_b' = prev'.total_b]_vars

\* C10 case: '# c', a blank line, 'bab' and 'x;y 3' gave total 3 and the tree
\* root -> x -> y, and so did 'x;y 3' alone
C10_Witness ==
    /\ run = 2 /\ pc = "fg_render_svg"
    /\ prev.lines = << <<"#", " ", "c", "\n">>, <<"\n">>, <<"b", "a", "b">>,
                       <<"x", ";", "y", " ", "3">> >>
    /\ lines = << <<"x", ";", "y", " ", "3">> >>
    /\ total = 3 /\ prev.total = 3 /\ nodes = prev.nodes
    /\ Len(nodes) = 3 /\ NodeAt(nodes, <<<<"x">>, <<"y">>>>) # 0
    /\ nodes[NodeAt(nodes, <<<<"x">>, <<"y">>>>)].self_count = 3

\* the text after the last space of the stripped line
TrailingToken(line) == LET l == strip(line) IN SliceFrom(l, rfind(l, " ") + 1)

\* what a line that is not skipped has to add to the total
Contributes(line, d) ==
    LET r == int(TrailingToken(line))
    IN  /\ d >= 1
        /\ ~r.ok => d = 1
        /\ (r.ok /\ r.val <= 0) => d = 1

\* C11: in both parsers every accepted line (not blank, not a comment, with a
\* space after stripping) adds a count >= 1 to the total, to the tree and to the
\* mapping: 1 when its trailing token is not an integer, 1 when the integer is
\* <= 0; so a total of 0 means that no line was accepted.
C11_AcceptedLineCountsAtLeastOne ==
    [][/\ (pc = "fg_parse" /\ idx <= Len(lines) /\ idx' = idx + 1
              /\ ~Skippable(lines[idx]))
          => /\ Contributes(lines[idx], total' - total)
             /\ nodes'[1].count - nodes[1].count = total' - total
       /\ (fd_parsing /\ idx <= Len(fd_cur) /\ idx' = idx + 1 /\ ~Skippable(fd_cur[idx]))
          => /\ Contributes(fd_cur[idx], total' - total)
             /\ SumOver(stacks', DOMAIN stacks') - SumOver(stacks, DOMAIN stacks)
                   = total' - total
       /\ (pc' = "fg_parse" /\ total' = 0)
          => \A k \in 1..(idx' - 1) : Skippable(lines'[k])
       /\ (pc' \in {"fd_parse_a", "fd_parse_b"} /\ total' = 0)
          => \A k \in 1..(idx' - 1) : Skippable(fd_cur'[k])
       /\ (pc' \notin {"fd_open", "fd_parse_a"} /\ lines' = <<>> /\ total_a' = 0)
          => \A k \in 1..Len(file_a') : Skippable(file_a'[k])
       /\ (pc' \notin {"fd_open", "fd_parse_a", "fd_parse_b"} /\ lines' = <<>>
              /\ total_b' = 0)
          => \A k \in 1..Len(file_b') : Skippable(file_b'[k])]_vars

\* C11 case: 'a 0', 'a;b -2' and 'a b x' have been parsed and each counted as 1
C11_Witness ==
    /\ pc = "fg_render_svg" /\ total = 3 /\ Len(lines) = 3
    /\ \A k \in 1..3 : ~Skippable(lines[k])
    /\ \E k \in 1..3 : int(TrailingToken(lines[k])) = [ok |-> TRUE, val |-> 0]
    /\ \E k \in 1..3 : int(TrailingToken(lines[k])) = [ok |-> TRUE, val |-> 0 - 2]
    /\ \E k \in 1..3 : ~int(TrailingToken(lines[k])).ok

\* flamegraph.py's parse_folded has returned a total of 0
fg_zero_profile == pc \notin {"fg_read", "fg_parse"} /\ nodes # <<>> /\ total = 0

\* both calls of flamediff.py's parse_folded have returned, one of them a total of 0
fd_zero_profile ==
    /\ pc \notin {"fd_args", "fd_open", "fd_parse_a", "fd_parse_b"}
    /\ Truthy(before_file) /\ Truthy(after_file)
    /\ (total_a = 0 \/ total_b = 0)

\* the run is over with status 1 and a last word on stderr; nothing was opened
\* for writing and nothing written
FailedWithoutOutput ==
    /\ pc = "exit" /\ exit_code = 1
    /\ ~ENABLED (fg_Next \/ fd_Next)
    /\ stderr # <<>>
    /\ \A k \in 1..Len(opened) : opened[k].mode # "w"
    /\ written = 0 /\ out = <<>>

\* C12: in both tools, once the parse has returned a profile of total 0 the run
\* is over with exit status 1 and a diagnostic on stderr, the output file has not
\* been opened and no write has been made on the output stream.
C12_ZeroProfileFailsWithoutOutput ==
    /\ fg_zero_profile =>
          /\ FailedWithoutOutput
          /\ stderr[Len(stderr)] = "flamegraph.py: no samples found in input"
    /\ fd_zero_profile =>
          /\ FailedWithoutOutput
          /\ stderr[Len(stderr)] = (IF total_a = 0
                                     THEN "flamediff.py: no samples in before_file"
                                     ELSE "flamediff.py: no samples in after_file")

\* C12 case: flamegraph.py -i p -o o on a comment and a blank line
C12_Witness ==
    /\ fg_zero_profile /\ Len(lines) = 2
    /\ args = [input |-> Some("p"), output |-> Some("o")]
    /\ pc = "exit" /\ exit_code = 1
    /\ opened = <<[name |-> "p", mode |-> "r"]>>
    /\ stderr = <<"flamegraph.py: no samples found in input">>

\* the command line names a "before" file: -a, or a first positional
BeforeGiven == Truthy(args.before) \/ (Len(args.files) >= 1 /\ args.files[1] # "")

\* the command line names an "after" file: -b, or a second positional
AfterGiven == Truthy(args.after) \/ (Len(args.files) >= 2 /\ args.files[2] # "")

\* flamediff.py has gone through the resolution of its input files
fd_resolved == pc # "fd_args" /\ nodes = <<>> /\ cargs = <<>> /\ run = 1

\* no input file has been opened or parsed
NothingRead ==
    /\ opened = <<>> /\ idx = 0
    /\ stacks = <<>> /\ stacks_a = <<>> /\ stacks_b = <<>> /\ dnodes = <<>>

\* C13 as claimed: with fewer than two input files resolvable from the
\* positionals, -a and -b, flamediff.py exits with code 1 and the failure is
\* reported before any input file is opened or parsed.
C13_Original ==
    (fd_resolved /\ ~(BeforeGiven /\ AfterGiven)) =>
        /\ pc = "exit" /\ exit_code = 1
        /\ stderr # <<>> /\ NothingRead

\* C13 amended: with fewer than two input files resolvable from the positionals,
\* -a and -b, flamediff.py exits through parser.error, with code 2, and the
\* failure is reported before any input file is opened or parsed.
C13_UsageErrorBeforeOpen ==
    (fd_resolved /\ ~(BeforeGiven /\ AfterGiven)) =>
        /\ pc = "exit" /\ exit_code = 2
        /\ ~ENABLED fd_Next
        /\ stderr = <<"flamediff.py: error: Need two input files">>
        /\ NothingRead

\* C13 case: `flamediff.py p -a a`: two names, no "after" file among them
C13_Witness ==
    /\ args.files = <<"p">> /\ args.before = Some("a") /\ args.after = None
    /\ before_file = Some("a") /\ after_file = None
    /\ pc = "exit" /\ exit_code = 2 /\ opened = <<>>

\* C14: name_to_color depends on the name alone: whatever 32-bit prefix the hash
\* of a name is, every frame of that name is filled with the same (r, g, b), at
\* any depth and position, and each channel lies in 0..255; the root is gray.
C14_PaletteIsAFunctionOfTheName ==
    pc \in {"fg_render_frame", "done"} =>
        \A j \in 1..Len(out) :
            /\ Len(out[j].fill) = 3
            /\ \A c \in 1..3 : out[j].fill[c] \in 0..255
            /\ out[j].depth = 0 => out[j].fill = <<200, 200, 200>>
            /\ \A k \in 1..Len(out) :
                  (/\ out[j].depth > 0 /\ out[k].depth > 0
                   /\ nodes[out[j].frame].name = nodes[out[k].frame].name)
                      => out[j].fill = out[k].fill

\* C14 case: two frames of one name at different depths, the name hashed to the
\* prefix of hue 59, sat 214, val 255, both filled (255, 44, 38)
C14_Witness ==
    /\ pc = "done"
    /\ \E j, k \in 1..Len(out) :
          /\ out[j].depth > 0 /\ out[k].depth > out[j].depth
          /\ nodes[out[j].frame].name = nodes[out[k].frame].name
          /\ md5[nodes[out[j].frame].name].hi = 55
          /\ md5[nodes[out[j].frame].name].lo = 13879
          /\ out[j].fill = <<255, 44, 38>> /\ out[k].fill = <<255, 44, 38>>

\* the object reached from object p by looking the names of path up in the
\* child_map of one object after the other, 0 when a name is missing
RECURSIVE Walk(_, _, _)
Walk(h, p, path) ==
    IF path = <<>> THEN p
    ELSE IF Head(path) \in DOMAIN h[p].child_map
         THEN Walk(h, h[p].child_map[Head(path)], Tail(path))
         ELSE 0

\* children and child_map of every object of heap h agree, and names are unique
\* among siblings
SiblingsIndexed(h) ==
    \A p \in 1..Len(h) :
        LET cs == h[p].children
            cm == h[p].child_map
        IN  /\ \A i, j \in 1..Len(cs) : i # j => h[cs[i]].name # h[cs[j]].name
            /\ {cs[k] : k \in 1..Len(cs)} = {cm[n] : n \in DOMAIN cm}
            /\ Len(cs) = Cardinality(DOMAIN cm)
            /\ \A n \in DOMAIN cm : h[cm[n]].name = n

\* every call path of the set reaches a node, two of them the same node only if
\* they are the same sequence of names, and every node but the root is reached
OneNodePerPath(h, paths) ==
    /\ \A q \in paths : Walk(h, 1, q) \in 2..Len(h)
    /\ \A q1, q2 \in paths : Walk(h, 1, q1) = Walk(h, 1, q2) <=> q1 = q2
    /\ {Walk(h, 1, q) : q \in paths} = 2..Len(h)

\* the call paths build_diff_tree has gone through, and their prefixes
fd_paths_built ==
    UNION {PrefixesOf(split(k, ";")) :
              k \in (DOMAIN stacks_a \cup DOMAIN stacks_b) \ all_stacks}

\* C15: after any sequence of add_child calls made while a tree is built, of
\* Frame or of DiffFrame objects, the names of every node's children are pairwise
\* distinct, children and child_map hold the same nodes, and two call paths
\* reach the same node if and only if they are the same sequence of frame names.
C15_ChildrenIndexedByName ==
    /\ nodes # <<>> =>
          /\ SiblingsIndexed(nodes)
          /\ OneNodePerPath(nodes, UNION {PrefixesOf(fg_path(k)) : k \in fg_seen})
    /\ dnodes # <<>> =>
          /\ SiblingsIndexed(dnodes)
          /\ OneNodePerPath(dnodes, fd_paths_built)

\* C15 case: the merged tree holds a node named b below a and another below the
\* root
C15_Witness ==
    /\ fd_built /\ pc = "done"
    /\ LET b1 == Walk(dnodes, 1, <<<<"b">>>>)
           b2 == Walk(dnodes, 1, <<<<"a">>, <<"b">>>>)
       IN  /\ b1 > 1 /\ b2 > 1 /\ b1 # b2
           /\ dnodes[b1].name = dnodes[b2].name
           /\ Len(dnodes[1].children) = 2

\* the call paths build_diff_tree has gone through
fd_keys_built == (DOMAIN stacks_a \cup DOMAIN stacks_b) \ all_stacks

\* no call path of the mapping passes through the node of heap h
NoPathThrough(h, id, st) ==
    \A key \in DOMAIN st : ~IsPrefix(PathOf(h, id), split(key, ";"))

\* C16: in build_diff_tree a call path present in only one of the two profiles
\* still gets a node for each of its prefixes, and a node through which no call
\* path of a profile passes has inclusive count 0 and self count 0 for that
\* profile.
C16_OneSidedPathsGetNodes ==
    (pc \in {"fd_build", "fd_render_frame", "done"} /\ dnodes # <<>>) =>
        /\ \A key \in fd_keys_built :
              \A q \in PrefixesOf(split(key, ";")) : Walk(dnodes, 1, q) \in 2..Len(dnodes)
        /\ \A id \in 2..Len(dnodes) :
              /\ NoPathThrough(dnodes, id, stacks_a) =>
                    (dnodes[id].count_a = 0 /\ dnodes[id].self_a = 0)
              /\ NoPathThrough(dnodes, id, stacks_b) =>
                    (dnodes[id].count_b = 0 /\ dnodes[id].self_b = 0)

\* C16 case: 'b' is a call path of the "before" profile only, 'a;c' of the
\* "after" profile only; both have their nodes, with 0 on the absent side
C16_Witness ==
    /\ fd_built
    /\ <<"b">> \in DOMAIN stacks_a \ DOMAIN stacks_b
    /\ <<"a", ";", "c">> \in DOMAIN stacks_b \ DOMAIN stacks_a
    /\ LET b == Walk(dnodes, 1, <<<<"b">>>>)
           a == Walk(dnodes, 1, <<<<"a">>>>)
           c == Walk(dnodes, 1, <<<<"a">>, <<"c">>>>)
       IN  /\ b > 1 /\ a > 1 /\ c > 1
           /\ dnodes[b].count_a > 0 /\ dnodes[b].count_b = 0 /\ dnodes[b].self_b = 0
           /\ dnodes[c].count_b > 0 /\ dnodes[c].count_a = 0 /\ dnodes[c].self_a = 0
           /\ dnodes[a].count_a = 0 /\ dnodes[a].count_b > 0

\* the step is a call of render_diff_frame that draws its frame
fd_Draws == pc = "fd_render_frame" /\ Len(out') = Len(out) + 1

\* the calls at the head of the pending calls are those for the children cs, in
\* this order, each of width W * weight / C and with its left edge at X plus the
\* widths of the children before it
LaidOutFrom(calls, cs, weight, X, W, C) ==
    /\ Len(calls) >= Len(cs)
    /\ \A i \in 1..Len(cs) :
          /\ calls[i].frame = cs[i]
          /\ calls[i].x_width = RMul(W, Rat(weight[cs[i]], C))
          /\ calls[i].x_left = RAdd(X, RSum([j \in 1..(i - 1) |-> calls[j].x_width]))
    /\ cs # <<>> => calls[1].x_left = X
    /\ \A i \in 1..(Len(cs) - 1) :
          RAdd(calls[i].x_left, calls[i].x_width) = calls[i + 1].x_left

\* the children are in ascending order of name
SortedByName(h, cs) ==
    \A i, j \in 1..Len(cs) : i < j => StrLess(h[cs[i]].name, h[cs[j]].name)

\* C17: in both renderers, when a node is drawn with left edge X and width W,
\* its children are taken in sorted order, the i-th is given the width
\* W * weight_i / C (weight: count, resp. max(count_a, count_b); C the node's
\* weight, or 1 if that is 0) and the left edge X plus the widths given to the
\* children before it, drawn or not: the first starts at X and siblings abut.
C17_ChildrenLaidOutLeftToRight ==
    [][/\ fg_Draws =>
             LET e == out'[Len(out')]
                 f == nodes[e.frame]
             IN  /\ f.count > 0
                 /\ SortedByName(nodes, f.children)
                 /\ Len(todo') = Len(todo) - 1 + Len(f.children)
                 /\ LaidOutFrom(todo', f.children,
                                [id \in 1..Len(nodes) |-> nodes[id].count],
                                e.x_left, e.x_width, f.count)
       /\ fd_Draws =>
             LET e == out'[Len(out')]
                 f == dnodes[e.frame]
                 w == [id \in 1..Len(dnodes) |->
                          IF dnodes[id].count_a >= dnodes[id].count_b
                          THEN dnodes[id].count_a ELSE dnodes[id].count_b]
             IN  /\ SortedByName(dnodes, f.children)
                 /\ Len(todo') = Len(todo) - 1 + Len(f.children)
                 /\ LaidOutFrom(todo', f.children, w, e.x_left, e.x_width,
                                IF w[e.frame] = 0 THEN 1 ELSE w[e.frame])]_vars

\* C17 case: on the narrow canvas a child too narrow to be drawn is pending, and
\* so is its next sibling, whose left edge is past the narrow child's width
C17_Witness ==
    /\ pc = "fg_render_frame" /\ Len(todo) >= 2 /\ out # <<>>
    /\ todo[1].depth = todo[2].depth /\ todo[1].depth = out[Len(out)].depth + 1
    /\ RLess(todo[1].x_width, MIN_WIDTH_PX) /\ todo[1].x_width.n > 0
    /\ todo[2].x_left = RAdd(todo[1].x_left, todo[1].x_width)
    /\ todo[1].x_left = out[Len(out)].x_left

\* the name of the frame of an entry of out
NameOf(e) == IF nodes # <<>> THEN nodes[e.frame].name ELSE dnodes[e.frame].name

\* C18: whenever a renderer emits a truncated label (the name does not fit and
\* the rectangle is wider than 20), the emitted text, max_chars characters of the
\* name followed by '..', is no wider than the rectangle at CHAR_WIDTH per
\* character, and the prefix is strictly shorter than the name.
C18_TruncatedLabelFits ==
    \A k \in 1..Len(out) :
        out[k].label.kind = "trunc" =>
            /\ ~RLess(out[k].x_width, RMul(RInt(out[k].label.max_chars + 2), CHAR_WIDTH))
            /\ out[k].label.max_chars < Len(NameOf(out[k]))

\* st is the table of call-path counts of the whole of file
Aggregated(st, file) ==
    LET acc == {k \in 1..Len(file) : fd_accepted(file[k])}
        cnt == [k \in 1..Len(file) |->
                   IF fd_accepted(file[k]) THEN fd_count(file[k]) ELSE 0]
    IN  /\ DOMAIN st = {fd_stack_str(file[k]) : k \in acc}
        /\ \A key \in DOMAIN st :
              st[key] = SumOver(cnt, {k \in acc : fd_stack_str(file[k]) = key})

\* the step creates or updates a node of the single-profile / differential tree
fg_TreeChanges == nodes' # nodes
fd_TreeChanges == dnodes' # dnodes

\* every children list of the tree is in ascending order of name
AllSorted(h) == \A id \in 1..Len(h) : SortedByName(h, h[id].children)

\* the differential tool keeps to the three phases: nodes change only once both
\* profiles are whole tables of call-path counts; a frame is emitted only from
\* a complete, sorted tree, which the step leaves as it is
fd_PhasesInSequence ==
    /\ fd_TreeChanges =>
          /\ pc \in {"fd_parse_b", "fd_build"} /\ idx > Len(file_b)
          /\ Aggregated(stacks_a', file_a) /\ Aggregated(stacks_b', file_b)
          /\ out = <<>>
    /\ fd_Draws => all_stacks = {} /\ AllSorted(dnodes)
    /\ pc = "fd_render_frame" => dnodes' = dnodes

\* in the single-profile tool a frame is emitted only from a complete, sorted
\* tree, which rendering leaves as it is
fg_BuiltBeforeDrawn ==
    /\ fg_Draws => idx > Len(lines) /\ AllSorted(nodes)
    /\ pc = "fg_render_frame" => nodes' = nodes

\* C19 as stated: in each tool the input is fully read and aggregated before any
\* tree node is created or updated, tree building (with the sort) completes
\* before the first frame is emitted, and no node changes once rendering has
\* started.
C19_Original ==
    [][/\ fg_TreeChanges => pc # "fg_read" /\ idx > Len(lines)
       /\ fg_BuiltBeforeDrawn
       /\ fd_PhasesInSequence]_vars

\* C19: flamediff.py aggregates both profiles into call-path counts before any
\* tree node is created or updated; flamegraph.py reads all its lines first and
\* then creates and updates nodes line by line, before any frame is emitted; in
\* both, tree building (with the sort) completes before the first frame is
\* emitted and no node changes once rendering has started.
C19_PhasesInSequence ==
    [][/\ fg_TreeChanges =>
             /\ pc \in {"fg_read", "fg_parse", "fg_render_svg"}
             /\ pc' \in {"fg_parse", "fg_render_frame"}
             /\ out = <<>>
       /\ fg_BuiltBeforeDrawn
       /\ fd_PhasesInSequence]_vars

\* C19 case: the differential renderer is in the middle of its pass over a tree
\* of two profiles with different call paths, frames emitted and calls pending
C19_Witness ==
    /\ pc = "fd_render_frame" /\ Len(out) >= 2 /\ todo # <<>>
    /\ Len(dnodes) >= 3 /\ DOMAIN stacks_a # DOMAIN stacks_b
    /\ Aggregated(stacks_a, file_a) /\ Aggregated(stacks_b, file_b)

\* the span [x_left, x_left + x_width] of call c lies inside [lo, hi]
SpanWithin(c, lo, hi) ==
    /\ ~RLess(c.x_left, lo)
    /\ ~RLess(hi, RAdd(c.x_left, c.x_width))

\* the calls of render_diff_frame made so far that drew, and those still pending
fd_Visited == {out[k] : k \in 1..Len(out)} \cup {todo[k] : k \in 1..Len(todo)}

\* C20: in differential mode every frame visited by render_diff_frame has its
\* span [x_left, x_left + x_width] inside the span of its parent, and inside the
\* root's usable span [MARGIN, width - MARGIN], for any two input profiles.
C20_DiffSpansNested ==
    pc = "fd_render_frame" =>
        \A c \in fd_Visited :
            /\ SpanWithin(c, RInt(MARGIN), RInt(width - MARGIN))
            /\ c.frame # 1 =>
                  \E k \in 1..Len(out) :
                      /\ out[k].frame = ParentOf(dnodes, c.frame)
                      /\ SpanWithin(c, out[k].x_left,
                                    RAdd(out[k].x_left, out[k].x_width))

\* C21: delta_color returns neutral gray only in the unchanged cases: whenever
\* at least one total is non-zero and the normalized rate difference has
\* magnitude >= 0.001, the returned colour is not (200,200,200); it has moved
\* toward red for a positive difference and toward blue for a negative one.
C21_GrayOnlyWhenUnchanged ==
    (/\ pc = "color_done"
     /\ cargs.total_a # 0 \/ cargs.total_b # 0
     /\ 1000 * Abs(ColorNum) >= ColorDen)
        => /\ cret # Gray
           /\ ColorNum > 0 => cret[1] >= 200 /\ cret[2] <= 200 /\ cret[3] <= 200
           /\ ColorNum < 0 => cret[3] >= 200 /\ cret[1] <= 200 /\ cret[2] <= 200

\* the sum of w[c] over the children cs
RECURSIVE SumOfChildren(_, _)
SumOfChildren(w, cs) ==
    IF cs = <<>> THEN 0 ELSE w[Head(cs)] + SumOfChildren(w, Tail(cs))

\* C22: in differential mode, after build_diff_tree on any two mappings (and
\* after each call path it has put in the tree), every node has
\* count_a = self_a + the sum of its children's count_a, and
\* count_b = self_b + the sum of its children's count_b.
C22_InclusiveIsSelfPlusChildrenPerProfile ==
    \A id \in 1..Len(dnodes) :
        /\ dnodes[id].count_a = dnodes[id].self_a
              + SumOfChildren([c \in 1..Len(dnodes) |-> dnodes[c].count_a],
                              dnodes[id].children)
        /\ dnodes[id].count_b = dnodes[id].self_b
              + SumOfChildren([c \in 1..Len(dnodes) |-> dnodes[c].count_b],
                              dnodes[id].children)

\* C22 case: build_diff_tree has returned a tree with a node that has a self
\* count and children on different sides, where the equality fails for the
\* display weight max(count_a, count_b)
C22_Witness ==
    /\ fd_built
    /\ \E id \in 2..Len(dnodes) :
          /\ dnodes[id].self_b > 0 /\ Len(dnodes[id].children) = 2
          /\ dnodes[id].count_a > 0
          /\ d_count(dnodes[id]) <
                SumOfChildren([c \in 1..Len(dnodes) |-> d_count(dnodes[c])],
                              dnodes[id].children)

\* the Frame tree ft and the DiffFrame tree dt have the same shape, names and
\* sibling order, and at every node count_a = count_b = count and
\* self_a = self_b = self_count
RECURSIVE SameTree(_, _)
SameTree(ft, dt) ==
    /\ ft.name = dt.name
    /\ dt.count_a = ft.count /\ dt.count_b = ft.count
    /\ dt.self_a = ft.self_count /\ dt.self_b = ft.self_count
    /\ Len(ft.kids) = Len(dt.kids)
    /\ \A k \in 1..Len(ft.kids) : SameTree(ft.kids[k], dt.kids[k])

\* flamediff.py runs on the profile flamegraph.py has just been run on
fd_after_fg == run = 2 /\ prev # <<>> /\ "lines" \in DOMAIN prev /\ cargs = <<>>

\* C23: for any lines L, the sorted tree of flamegraph.py's parse_folded(L) and
\* the sorted tree of flamediff.py's parse_folded(L) + build_diff_tree with L as
\* both profiles have the same shape and sibling order, with
\* count_a = count_b = count and self_a = self_b = self_count at every node, and
\* the totals are equal; where L has no samples, both mappings are empty, so
\* that both trees are the root alone.
C23_SameTreeFromSameProfile ==
    /\ (fd_after_fg /\ pc \notin {"fd_args", "fd_open", "fd_parse_a"}) =>
          total_a = prev.total
    /\ (fd_after_fg /\ pc \in {"fd_build", "fd_render_frame", "done", "exit"}) =>
          total_b = prev.total /\ stacks_a = stacks_b
    /\ (fd_after_fg /\ pc \in {"fd_render_frame", "done"}) =>
          SameTree(prev.tree, DTreeOf(dnodes, 1))
    /\ (fd_after_fg /\ pc = "exit") =>
          /\ prev.tree = TreeOf(<<Frame(RootName)>>, 1)
          /\ DOMAIN stacks_a = {} /\ dnodes = <<>>

\* C23 case: a profile with the same call path on two lines, a line of count
\* -2 and a node with a self count and a child, built into the same tree by
\* both tools
C23_Witness ==
    /\ fd_after_fg /\ pc = "done" /\ Len(prev.lines) = 3
    /\ SameTree(prev.tree, DTreeOf(dnodes, 1))
    /\ \E i, j \in 1..3 : i < j /\ prev.lines[i] = prev.lines[j]
                             /\ fd_accepted(prev.lines[i])
    /\ \E i \in 1..3 : prev.lines[i] = <<"b", " ", "-", "2", "\n">>
    /\ total_a = prev.total /\ total_b = prev.total /\ Len(dnodes) >= 4

=============================================================================
